---- MODULE Spec2Model ----
(***************************************************************************)
(* Session lifecycle of claude-time-tracker: the session manager           *)
(* (session-manager.ts), the process manager, the idle detector, the       *)
(* active-session store and the local session database, as one process     *)
(* running on the Node.js event loop.  Every action is one callback run    *)
(* to completion: a handler runs up to its next await, and the code after  *)
(* an await is a separate action fired by the awaited collaborator.        *)
(* Time is Date.now() in milliseconds; the clock advances one poll         *)
(* interval at a time.                                                     *)
(***************************************************************************)
EXTENDS Integers, Sequences, FiniteSets, TLC

\* ---------------------------------------------------------------- bounds
MaxStarts == 2            \* startSession calls modelled per process
ShortIdleMinutes == 1     \* configured idleTimeoutMinutes (the default is 10)
SlowPollSeconds == 60     \* a configured pollIntervalSeconds above the default
ExtraSeconds == 30        \* the clock runs this long past the idle threshold
MaxTouches == 1           \* modifications of project directory entries
MaxProcs == 2             \* invocations of the tool sharing the registry file
MaxOps == 3               \* registry operations of all invocations together
MaxRows == 3              \* rows of the sessions table
MaxDeliveries == 2        \* records created in the external store per session
MaxCommits == 2           \* commits made during a session
MaxBuilds == 2            \* buildSuggestions calls on the same inputs
MaxAsks == 1              \* times the text question is asked again

\* ------------------------------------------------------ program constants
DefaultPollSeconds == 30  \* DEFAULT_CONFIG.pollIntervalSeconds
recentThreshold == 60000  \* hasProjectActivity: const recentThreshold

OldMtime == 0 - recentThreshold

\* ------------------------------------------------------------ value sets
Ids == 1..MaxStarts       \* k-th startSession: session id, child, timer
NULL == 0                 \* null reference to a child or a timer
RowIds == 1..MaxRows      \* ids of saved sessions, those of earlier runs included

ProjectA == <<"home", "a">>
ProjectB == <<"home", "b">>
Paths == {ProjectA, ProjectB}
NoPath == <<>>

basename(path) == IF Len(path) = 0 THEN "" ELSE path[Len(path)]

\* string | null:  <<>> is null, <<s>> is the string s
Null == <<>>
Some(s) == <<s>>
NoteTexts == {"", "fix login"}
Truthy(v) == v # Null /\ v[1] # ""

EndReasons == {"exit", "idle", "manual", "project-switch"}

\* directory entries of a project, a name is a sequence of characters
EntrySrc == <<"s", "r", "c">>
EntryGit == <<".", "g", "i", "t">>
Entries == {EntrySrc, EntryGit}
startsWithDot(name) == Len(name) > 0 /\ name[1] = "."

MyPid == "self"

\* loadConfig(): the fields the lifecycle reads
AllOff == [idleTimeoutMinutes |-> ShortIdleMinutes,
           pollIntervalSeconds |-> SlowPollSeconds,
           airtableSync |-> FALSE, airtable |-> FALSE, emailReports |-> FALSE,
           perSessionEmails |-> FALSE, email |-> FALSE,
           conversationAnalysis |-> FALSE, anthropicApiKey |-> FALSE]
SyncAndEmail == [AllOff EXCEPT !.airtableSync = TRUE, !.airtable = TRUE,
                               !.emailReports = TRUE, !.perSessionEmails = TRUE,
                               !.email = TRUE]
AnalysisOnly == [AllOff EXCEPT !.conversationAnalysis = TRUE,
                               !.anthropicApiKey = TRUE]
SyncNoCredentials == [AllOff EXCEPT !.airtableSync = TRUE]
Configs == {AllOff, SyncAndEmail, AnalysisOnly, SyncNoCredentials}
\* the idle detector at the default poll interval
IdleConfigs == {[AllOff EXCEPT !.pollIntervalSeconds = DefaultPollSeconds]}

timeoutMsOf(cfg) == cfg.idleTimeoutMinutes * 60 * 1000
pollIntervalMsOf(cfg) == cfg.pollIntervalSeconds * 1000
MaxClockOf(cfg) == timeoutMsOf(cfg) + ExtraSeconds * 1000

VARIABLES
  config,           \* content of the config file
  now,              \* Date.now()
  currentSession,   \* session-manager.ts: let currentSession
  isEnding,         \* session-manager.ts: let isEnding
  nStarts,          \* startSession calls so far (source of fresh ids)
  endPc,            \* await at which the endSession call past its guard is
  endLocal,         \* locals of that endSession call
  endResult,        \* its promise: "none", "pending", "resolved", "rejected"
  claudeProcess,    \* process-manager: let claudeProcess
  child,            \* the spawned children: "none", "running", "terminating"
                    \* (running, SIGTERM sent), "errored", "exited"
  pollTimer,        \* idle-detector: let pollTimer
  timers,           \* the interval timers created by setInterval
  lastActivityTime, \* idle-detector: let lastActivityTime
  mtime,            \* last-modified time of the project directory entries
  touches,          \* directory modifications so far
  store,            \* active-sessions.json
  db,               \* sessions table of sessions.db
  retry,            \* per retryFailedSyncs run: the sessions still to attempt
  delivered,        \* per session: records created in the external store
  log,              \* events of the endSession pipelines, in order
  lastCall,         \* the stopSession or endSession call or the timer tick
                    \* made by the last step, if it made one
  fsNames,          \* directory: the inode of STORE_FILE and of STORE_FILE.tmp
  inodes,           \* content of the files
  rproc,            \* per invocation: its registry operation in progress
  done,             \* per invocation: the registry operation it finished last
  nOps,             \* registry operations begun so far
  lastRead,         \* what the last readStore found in the file
  gitContext,       \* what getGitContext returned: branch, commits, pull requests
  analysis,         \* what analyzeConversation returned, or NoAnalysis
  suggestions,      \* what the last buildSuggestions call returned
  nBuilds,          \* buildSuggestions calls so far
  prompt            \* the feature question of endSession: its inputs, the
                    \* position in promptForFeature and the text resolved

vars == <<config, now, currentSession, isEnding, nStarts, endPc, endLocal,
          endResult, claudeProcess, child, pollTimer, timers,
          lastActivityTime, mtime, touches, store, db, retry,
          delivered, log, lastCall, fsNames, inodes, rproc, done, nOps, lastRead,
          gitContext, analysis, suggestions, nBuilds, prompt>>

regVars == <<fsNames, inodes, rproc, done, nOps, lastRead>>

uiVars == <<gitContext, analysis, suggestions, nBuilds, prompt>>

lifecycleVars == <<config, now, currentSession, isEnding, nStarts, endPc,
                   endLocal, endResult, claudeProcess, child, pollTimer,
                   timers, lastActivityTime, mtime, touches, store, db, retry,
                   delivered, log, lastCall>>

\* ------------------------------------------------------------- null values
NoSession == [id |-> 0, projectPath |-> NoPath, projectName |-> "", startTime |-> 0]

\* prompts counts the promptForFeature calls of the endSession call; handle
\* is the value of currentSession when the call passed its entry guard
NoLocal == [reason |-> "", stopChild |-> NULL, endTime |-> 0, durationMs |-> 0,
            summary |-> Null, note |-> Null, prompts |-> 0, sid |-> 0,
            handle |-> NoSession]

NoRow == [id |-> 0, projectPath |-> NoPath, projectName |-> "", feature |-> "",
          startTime |-> 0, endTime |-> 0, durationMs |-> 0, endReason |-> "",
          conversationSummary |-> Null, airtableSynced |-> FALSE,
          airtableRecordId |-> Null, emailSent |-> FALSE]

NoEntry == [sessionId |-> 0, pid |-> "", note |-> Null]

\* fired counts the invocations of options.onIdle by the timer
NoTimer == [live |-> FALSE, projectPath |-> NoPath, due |-> 0, fired |-> 0]

NoCall == [op |-> "none", n |-> 0, reason |-> "", outcome |-> ""]

\* ------------------------------------------------- active-session-store.ts
\* the file is a mapping path -> entry; NoEntry stands for an absent key
readStore(file) == file

registerSession(file, projectPath, sessionId, pid) ==
  [readStore(file) EXCEPT ![projectPath] =
      [sessionId |-> sessionId, pid |-> pid, note |-> Null]]

\* variant: unregistering one project drops every entry
unregisterSessionAll(file, projectPath) ==
  [p \in Paths |-> NoEntry]

unregisterSession(file, projectPath) ==
  IF projectPath \in Paths
    THEN [readStore(file) EXCEPT ![projectPath] = NoEntry]
    ELSE readStore(file)

getNote(file, projectPath) ==
  IF projectPath \in Paths /\ readStore(file)[projectPath] # NoEntry
    THEN readStore(file)[projectPath].note
    ELSE Null

\* ------------------------------------------------------- storage/sqlite.ts
saveSession(table, session) == [table EXCEPT ![session.id] = session]

\* variant: the flag is set and the record id is not stored
markSyncedFlagOnly(table, id, airtableRecordId) ==
  IF table[id] = NoRow THEN table
  ELSE [table EXCEPT ![id].airtableSynced = TRUE]

\* variant: the row is written again, as INSERT OR REPLACE of a bare row would
markSyncedReplacesRow(table, id, airtableRecordId) ==
  IF table[id] = NoRow THEN table
  ELSE [table EXCEPT ![id] = [NoRow EXCEPT !.id = id, !.airtableSynced = TRUE,
                                           !.airtableRecordId = airtableRecordId,
                                           !.emailSent = table[id].emailSent]]

markSynced(table, id, airtableRecordId) ==
  IF table[id] = NoRow THEN table
  ELSE [table EXCEPT ![id].airtableSynced = TRUE,
                     ![id].airtableRecordId = airtableRecordId]

markEmailSent(table, id) ==
  IF table[id] = NoRow THEN table
  ELSE [table EXCEPT ![id].emailSent = TRUE]

\* ids of the rows with airtable_synced = 0, ORDER BY start_time ASC
\* (rows of equal start_time in rowid order, which is the order of the ids)
RECURSIVE SortedByStart(_, _)
SortedByStart(table, ids) ==
  IF ids = {} THEN <<>>
  ELSE LET first == CHOOSE i \in ids : \A j \in ids :
                       \/ table[i].startTime < table[j].startTime
                       \/ table[i].startTime = table[j].startTime /\ i <= j
       IN <<first>> \o SortedByStart(table, ids \ {first})

\* variant: the query without ORDER BY, the rows in rowid order
getUnsyncedSessionsByRowid(table) ==
  LET ids == {i \in RowIds : table[i] # NoRow /\ ~table[i].airtableSynced} IN
  [n \in 1..Cardinality(ids) |->
     CHOOSE i \in ids : Cardinality({j \in ids : j < i}) = n - 1]

getUnsyncedSessions(table) ==
  SortedByStart(table, {i \in RowIds : table[i] # NoRow /\ ~table[i].airtableSynced})

\* ------------------------------------------------------ process-manager.ts
exitCodeIsNull(ch, c) == ch[c] \in {"running", "terminating", "errored"}

isClaudeRunning(ch, proc) == proc # NULL /\ exitCodeIsNull(ch, proc)

\* child.kill('SIGTERM') in stopClaude
kill(ch, c) == [ch EXCEPT ![c] = "terminating"]

\* -------------------------------------------------------- idle-detector.ts
\* variant: a stop without a current timer cancels every timer there is
stopIdleDetectionCancelsAll(tm, pt) ==
  IF pt # NULL THEN [tm EXCEPT ![pt] = NoTimer] ELSE [t \in DOMAIN tm |-> NoTimer]

\* stopIdleDetection on a timer table tm with current timer pt
stopIdleDetection(tm, pt) ==
  IF pt # NULL THEN [tm EXCEPT ![pt] = NoTimer] ELSE tm

\* variant: only an entry modified after the tick counts
hasProjectActivityStale(projectPath) ==
  \E e \in Entries : /\ ~startsWithDot(e)
                     /\ now - mtime[projectPath][e] < 0

hasProjectActivity(projectPath) ==
  \E e \in Entries : /\ ~startsWithDot(e)
                     /\ now - mtime[projectPath][e] < recentThreshold

\* variant: a note already set is kept
setNoteKeepsFirst(file, projectPath, note) ==
  IF readStore(file)[projectPath] = NoEntry
    THEN file
  ELSE IF readStore(file)[projectPath].note # Null
    THEN file
  ELSE [readStore(file) EXCEPT ![projectPath].note = Some(note)]

\* the note command of another invocation of the tool (setNote)
setNote(file, projectPath, note) ==
  IF readStore(file)[projectPath] = NoEntry
    THEN file                                   \* throws: no active session
    ELSE [readStore(file) EXCEPT ![projectPath].note = Some(note)]

\* ------------------------------------------------------- session-manager.ts
syncEnabled == config.airtableSync /\ config.airtable
emailEnabled == config.emailReports /\ config.perSessionEmails /\ config.email
analysisEnabled == config.conversationAnalysis /\ config.anthropicApiKey

Ev(e, id) == [ev |-> e, id |-> id]

\* What one run of endSession code can read and write, as a record, so that
\* the stages of endSession between two awaits compose into one step.
Cur == [pc |-> endPc, loc |-> endLocal, res |-> endResult,
        cur |-> currentSession, ending |-> isEnding,
        pollTimer |-> pollTimer, timers |-> timers, child |-> child,
        store |-> store, db |-> db, log |-> log, delivered |-> delivered]

ApplyEnd(E) ==
  /\ endPc' = E.pc
  /\ endLocal' = E.loc
  /\ endResult' = E.res
  /\ currentSession' = E.cur
  /\ isEnding' = E.ending
  /\ pollTimer' = E.pollTimer
  /\ timers' = E.timers
  /\ child' = E.child
  /\ store' = E.store
  /\ db' = E.db
  /\ log' = E.log
  /\ delivered' = E.delivered

\* lines 205-207: unregister, clear the handle and the flag
Finish(E) ==
  [E EXCEPT !.store = unregisterSession(E.store, E.cur.projectPath),
            !.cur = NoSession,
            !.ending = FALSE,
            !.pc = "none", !.loc = NoLocal, !.res = "resolved"]

\* lines 195-203: the notification attempt
AfterSync(E) ==
  IF emailEnabled
    THEN [E EXCEPT !.pc = "awaitEmail", !.log = Append(@, Ev("email", E.loc.sid))]
    ELSE Finish(E)

\* lines 185-193: the record-store sync attempt
AfterSave(E) ==
  IF syncEnabled
    THEN [E EXCEPT !.pc = "awaitSync", !.log = Append(@, Ev("sync", E.loc.sid))]
    ELSE AfterSync(E)

\* lines 162-179: the Session object, built from the handle current now
BuildSession(E, feature) ==
  [id |-> E.cur.id, projectPath |-> E.cur.projectPath,
   projectName |-> E.cur.projectName, feature |-> feature,
   startTime |-> E.cur.startTime, endTime |-> E.loc.endTime,
   durationMs |-> E.loc.durationMs, endReason |-> E.loc.reason,
   conversationSummary |-> E.loc.summary, airtableSynced |-> FALSE,
   airtableRecordId |-> Null, emailSent |-> FALSE]

\* variant: a throw of saveSession is caught and endSession carries on
SaveStepSwallows(E, feature, saveOk) ==
  LET session == BuildSession(E, feature) IN
  AfterSave([E EXCEPT !.db = IF saveOk THEN saveSession(E.db, session) ELSE E.db,
                      !.log = Append(@, Ev(IF saveOk THEN "save" ELSE "saveThrows",
                                           session.id)),
                      !.loc.sid = session.id])

\* lines 159-183: build and save; saveOk = FALSE is saveSession throwing
SaveStep(E, feature, saveOk) ==
  LET session == BuildSession(E, feature) IN
  IF saveOk
    THEN AfterSave([E EXCEPT !.db = saveSession(E.db, session),
                             !.log = Append(@, Ev("save", session.id)),
                             !.loc.sid = session.id])
    ELSE [E EXCEPT !.pc = "none", !.loc = NoLocal, !.res = "rejected",
                   !.log = Append(@, Ev("saveThrows", session.id))]

\* variant: any note that is not null is used directly, the empty one too
ResolveFeatureAnyNote(E, saveOk) ==
  LET note == getNote(E.store, E.cur.projectPath) IN
  IF E.loc.reason = "idle" /\ note # Null
    THEN SaveStep(E, note[1], saveOk)
    ELSE [E EXCEPT !.pc = "awaitPrompt", !.loc.note = note,
                   !.loc.prompts = @ + 1,
                   !.log = Append(@, Ev("prompt", E.cur.id))]

\* lines 131-157: note, then either the note as the feature or the prompt
ResolveFeature(E, saveOk) ==
  LET note == getNote(E.store, E.cur.projectPath) IN
  IF E.loc.reason = "idle" /\ Truthy(note)
    THEN SaveStep(E, note[1], saveOk)
    ELSE [E EXCEPT !.pc = "awaitPrompt", !.loc.note = note,
                   !.loc.prompts = @ + 1,
                   !.log = Append(@, Ev("prompt", E.cur.id))]

\* lines 95-129: end time, duration, then the optional analysis
AfterStop(E, saveOk) ==
  LET E1 == [E EXCEPT !.loc.endTime = now,
                      !.loc.durationMs = now - E.cur.startTime,
                      !.loc.stopChild = NULL] IN
  IF analysisEnabled
    THEN [E1 EXCEPT !.pc = "awaitAnalysis"]
    ELSE ResolveFeature(E1, saveOk)

\* variant: the guard without the isEnding test
GuardIgnoresFlag(E) ==
  IF E.cur = NoSession THEN "noHandle" ELSE "passed"

\* variant: the guard without the currentSession test
GuardIgnoresHandle(E) ==
  IF E.ending THEN "ending" ELSE "passed"

\* line 81: the entry guard
Guard(E) ==
  IF E.cur = NoSession THEN "noHandle"
  ELSE IF E.ending THEN "ending"
  ELSE "passed"

\* lines 80-93: endSession(reason) up to its first await; proc is the value
\* of claudeProcess at the call
endSession(E, reason, proc, saveOk) ==
  IF Guard(E) # "passed" THEN E
  ELSE LET E1 == [E EXCEPT !.ending = TRUE,
                           !.timers = stopIdleDetection(E.timers, E.pollTimer),
                           !.pollTimer = NULL,
                           !.res = "pending",
                           !.loc = [NoLocal EXCEPT !.reason = reason,
                                                   !.handle = E.cur]] IN
       IF isClaudeRunning(E.child, proc)
         THEN [E1 EXCEPT !.pc = "awaitStop", !.loc.stopChild = proc,
                         !.child = kill(E.child, proc)]
         ELSE AfterStop(E1, saveOk)

Call(op, n, reason, outcome) ==
  [op |-> op, n |-> n, reason |-> reason, outcome |-> outcome]

timeoutMs == timeoutMsOf(config)
pollIntervalMs == pollIntervalMsOf(config)
MaxClock == MaxClockOf(config)

\* the resolution of stopClaude() is a microtask: nothing else of this
\* process runs before the code after the await
busy == endPc = "stopResolved"

\* retryFailedSyncs up to its first await (storage/airtable.ts 49-65)
retryFailedSyncs(table) ==
  IF ~config.airtableSync \/ ~config.airtable THEN <<>>
  ELSE getUnsyncedSessions(table)

TypeOK ==
  /\ config \in Configs \cup IdleConfigs
  /\ now \in 0..MaxClock
  /\ isEnding \in BOOLEAN
  /\ nStarts \in 0..MaxStarts
  /\ endPc \in {"none", "awaitStop", "stopResolved", "awaitAnalysis",
                "awaitPrompt", "awaitSync", "awaitEmail"}
  /\ endResult \in {"none", "pending", "resolved", "rejected"}
  /\ claudeProcess \in Ids \cup {NULL}
  /\ child \in [Ids -> {"none", "running", "terminating", "errored", "exited"}]
  /\ pollTimer \in Ids \cup {NULL}
  /\ lastActivityTime \in 0..MaxClock
  /\ touches \in 0..MaxTouches

InitMemory(cfgs) ==
  /\ config \in cfgs
  /\ now = 0
  /\ currentSession = NoSession
  /\ isEnding = FALSE
  /\ nStarts = 0
  /\ endPc = "none"
  /\ endLocal = NoLocal
  /\ endResult = "none"
  /\ claudeProcess = NULL
  /\ child = [c \in Ids |-> "none"]
  /\ pollTimer = NULL
  /\ timers = [t \in Ids |-> NoTimer]
  /\ lastActivityTime = 0
  /\ mtime = [p \in Paths |-> [e \in Entries |-> OldMtime]]
  /\ touches = 0
  /\ store = [p \in Paths |-> NoEntry]
  /\ retry = [k \in Ids |-> <<>>]
  /\ delivered = [i \in RowIds |-> 0]
  /\ log = <<>>
  /\ lastCall = NoCall

\* a first invocation: the sessions table is empty (sqlite.ts 23-46)
InitLifecycle(cfgs) ==
  /\ InitMemory(cfgs)
  /\ db = [i \in RowIds |-> NoRow]

\* ------------------------------------------------------------------ texts
\* A text is the sequence of its characters, a character a string of length
\* one, so that trim, toLowerCase, includes and split act on what they act on
\* in the code.
UpperCase == <<"A", "B", "C", "D", "E", "F", "G", "H", "I", "J", "K", "L", "M",
               "N", "O", "P", "Q", "R", "S", "T", "U", "V", "W", "X", "Y", "Z">>
LowerCase == <<"a", "b", "c", "d", "e", "f", "g", "h", "i", "j", "k", "l", "m",
               "n", "o", "p", "q", "r", "s", "t", "u", "v", "w", "x", "y", "z">>
Digits == {"0", "1", "2", "3", "4", "5", "6", "7", "8", "9"}
WhiteSpace == {" ", "\t", "\n"}

Range(f) == {f[i] : i \in DOMAIN f}
Min(S) == CHOOSE x \in S : \A y \in S : x <= y
Max(S) == CHOOSE x \in S : \A y \in S : x >= y

toLowerChar(c) ==
  IF c \in Range(UpperCase)
    THEN LowerCase[CHOOSE i \in DOMAIN UpperCase : UpperCase[i] = c]
    ELSE c

toUpperChar(c) ==
  IF c \in Range(LowerCase)
    THEN UpperCase[CHOOSE i \in DOMAIN LowerCase : LowerCase[i] = c]
    ELSE c

toLowerCase(text) == [i \in 1..Len(text) |-> toLowerChar(text[i])]

\* String.prototype.trim
trim(text) ==
  LET ink == {i \in 1..Len(text) : text[i] \notin WhiteSpace} IN
  IF ink = {} THEN <<>> ELSE SubSeq(text, Min(ink), Max(ink))

\* .replace(/\s+/g, ' ')
RECURSIVE collapseSpaces(_)
collapseSpaces(text) ==
  IF text = <<>> THEN <<>>
  ELSE IF Head(text) \in WhiteSpace
    THEN IF Len(text) > 1 /\ text[2] \in WhiteSpace
           THEN collapseSpaces(Tail(text))
           ELSE <<" ">> \o collapseSpaces(Tail(text))
  ELSE <<Head(text)>> \o collapseSpaces(Tail(text))

\* .replace(/[^a-z0-9\s]/g, ' ')
replaceOthers(text) ==
  [i \in 1..Len(text) |->
     IF text[i] \in Range(LowerCase) \cup Digits \cup WhiteSpace
       THEN text[i] ELSE " "]

\* .replace(/[-_]/g, ' ')
replaceDashes(text) ==
  [i \in 1..Len(text) |-> IF text[i] \in {"-", "_"} THEN " " ELSE text[i]]

\* String.prototype.includes
includes(a, b) ==
  \E i \in 0..(Len(a) - Len(b)) : SubSeq(a, i + 1, i + Len(b)) = b

\* new Set(text.split(' '))
splitWords(text) ==
  LET cuts == {0, Len(text) + 1} \cup {i \in 1..Len(text) : text[i] = " "} IN
  {SubSeq(text, a + 1, b - 1) :
     <<a, b>> \in {c \in cuts \X cuts :
                     /\ c[1] < c[2]
                     /\ ~\E m \in cuts : c[1] < m /\ m < c[2]}}

\* --------------------------------------------------- feature-suggester.ts
\* confidence in tenths: 10 is 1.0, 8 is 0.8, 7 is 0.7, 6 is 0.6
NoAnalysis == [available |-> FALSE, suggestedFeatures |-> <<>>]
NoGitContext == [branch |-> <<>>, recentCommits |-> <<>>, openPRs |-> <<>>]

normalize(text) ==
  trim(collapseSpaces(replaceOthers(toLowerCase(trim(text)))))

\* variant: without the word overlap test
isSimilarSubstringOnly(a, b) ==
  \/ a = b
  \/ includes(a, b) \/ includes(b, a)

isSimilar(a, b) ==
  \/ a = b
  \/ includes(a, b) \/ includes(b, a)
  \/ LET wordsA == splitWords(a)
         wordsB == splitWords(b)
     IN  10 * Cardinality(wordsA \cap wordsB) > 6 * Cardinality(wordsA \cup wordsB)

\* variant: only a candidate equal to an accepted one is a duplicate
addSuggestionExactOnly(acc, suggestion) ==
  LET normalized == normalize(suggestion.text) IN
  IF Len(normalized) < 3 THEN acc
  ELSE IF normalized \in acc.seen THEN acc
  ELSE [list |-> Append(acc.list, suggestion),
        seen |-> acc.seen \cup {normalized}]

\* acc is the pair of the list and the seen set
addSuggestion(acc, suggestion) ==
  LET normalized == normalize(suggestion.text) IN
  IF Len(normalized) < 3 THEN acc
  ELSE IF \E existing \in acc.seen : isSimilar(existing, normalized) THEN acc
  ELSE [list |-> Append(acc.list, suggestion),
        seen |-> acc.seen \cup {normalized}]

RECURSIVE addAll(_, _, _, _)
addAll(acc, texts, source, confidence) ==
  IF texts = <<>> THEN acc
  ELSE addAll(addSuggestion(acc, [text |-> Head(texts), source |-> source,
                                  confidence |-> confidence]),
              Tail(texts), source, confidence)

BranchPrefixes ==
  {<<"f", "e", "a", "t", "u", "r", "e">>, <<"f", "e", "a", "t">>,
   <<"f", "i", "x">>, <<"b", "u", "g", "f", "i", "x">>,
   <<"h", "o", "t", "f", "i", "x">>, <<"c", "h", "o", "r", "e">>,
   <<"r", "e", "f", "a", "c", "t", "o", "r">>}

\* .replace(/^(feature|feat|fix|bugfix|hotfix|chore|refactor)\//i, '')
stripPrefix(branch) ==
  LET matching == {p \in BranchPrefixes :
                     /\ Len(branch) > Len(p)
                     /\ toLowerCase(SubSeq(branch, 1, Len(p))) = p
                     /\ branch[Len(p) + 1] = "/"} IN
  IF matching = {} THEN branch
  ELSE LET p == CHOOSE q \in matching : TRUE IN
       SubSeq(branch, Len(p) + 2, Len(branch))

capitalize(text) ==
  IF text = <<>> THEN text ELSE <<toUpperChar(Head(text))>> \o Tail(text)

\* variant: the prefix of the branch name is kept
branchToFeatureNameKeepsPrefix(branch) ==
  capitalize(trim(collapseSpaces(replaceDashes(branch))))

branchToFeatureName(branch) ==
  capitalize(trim(collapseSpaces(replaceDashes(stripPrefix(branch)))))

Main == <<"m", "a", "i", "n">>
Master == <<"m", "a", "s", "t", "e", "r">>

\* gitContext.openPRs.find(pr => pr.branch === gitContext.branch)
currentPR(gc) ==
  LET hits == {i \in 1..Len(gc.openPRs) : gc.openPRs[i].branch = gc.branch} IN
  IF hits = {} THEN <<>> ELSE <<gc.openPRs[Min(hits)]>>

slice(list, n) == SubSeq(list, 1, IF Len(list) < n THEN Len(list) ELSE n)

\* lines 10-50: the candidates accepted, in the order of their generation
generate(gc, an) ==
  LET e0 == [list |-> <<>>, seen |-> {}]
      e1 == IF currentPR(gc) # <<>>
              THEN addAll(e0, <<currentPR(gc)[1].title>>, "pr", 10) ELSE e0
      e2 == addAll(e1, slice(gc.recentCommits, 5), "commit", 8)
      e3 == IF gc.branch # <<>> /\ gc.branch # Main /\ gc.branch # Master
                /\ branchToFeatureName(gc.branch) # <<>>
              THEN addAll(e2, <<branchToFeatureName(gc.branch)>>, "branch", 6)
              ELSE e2
      e4 == IF an.available
              THEN addAll(e3, an.suggestedFeatures, "conversation", 7) ELSE e3
  IN  e4.list

\* lines 10-50: the candidates handed to addSuggestion, in the order of the
\* calls
candidates(gc, an) ==
  LET commits == slice(gc.recentCommits, 5) IN
  (IF currentPR(gc) # <<>>
     THEN <<[text |-> currentPR(gc)[1].title, source |-> "pr", confidence |-> 10]>>
     ELSE <<>>)
  \o [i \in 1..Len(commits) |->
        [text |-> commits[i], source |-> "commit", confidence |-> 8]]
  \o (IF gc.branch # <<>> /\ gc.branch # Main /\ gc.branch # Master
         /\ branchToFeatureName(gc.branch) # <<>>
        THEN <<[text |-> branchToFeatureName(gc.branch), source |-> "branch",
                confidence |-> 6]>>
        ELSE <<>>)
  \o (IF an.available
        THEN [i \in 1..Len(an.suggestedFeatures) |->
                [text |-> an.suggestedFeatures[i], source |-> "conversation",
                 confidence |-> 7]]
        ELSE <<>>)

\* variant: a candidate goes in front of the accepted ones of its confidence
insertBeforeTies(sorted, x) ==
  LET before == {i \in 1..Len(sorted) : sorted[i].confidence > x.confidence}
      n == Cardinality(before)
  IN  SubSeq(sorted, 1, n) \o <<x>> \o SubSeq(sorted, n + 1, Len(sorted))

\* one step of the stable sort: x goes behind every element that does not
\* compare after it (b.confidence - a.confidence)
insertSorted(sorted, x) ==
  LET before == {i \in 1..Len(sorted) : sorted[i].confidence >= x.confidence}
      n == Cardinality(before)
  IN  SubSeq(sorted, 1, n) \o <<x>> \o SubSeq(sorted, n + 1, Len(sorted))

RECURSIVE sortFrom(_, _)
sortFrom(sorted, rest) ==
  IF rest = <<>> THEN sorted
  ELSE sortFrom(insertSorted(sorted, Head(rest)), Tail(rest))

\* line 53: suggestions.sort((a, b) => b.confidence - a.confidence)
sort(list) == sortFrom(<<>>, list)

buildSuggestions(gc, an) == sort(generate(gc, an))

\* ------------------------------------------------------------ prompter.ts
\* the value of the choice "Type a custom description"
Custom == <<"_", "_", "c", "u", "s", "t", "o", "m", "_", "_">>

\* a choice is pushed unless its lower-case text was seen; acc is the pair of
\* the choices and the seen set
pushChoice(acc, text) ==
  IF toLowerCase(text) \in acc.seen THEN acc
  ELSE [list |-> Append(acc.list, text),
        seen |-> acc.seen \cup {toLowerCase(text)}]

RECURSIVE pushAll(_, _)
pushAll(acc, texts) ==
  IF texts = <<>> THEN acc ELSE pushAll(pushChoice(acc, Head(texts)), Tail(texts))

\* branchToFeature of prompter.ts: '' for a text shorter than three characters
branchToFeature(branch) ==
  LET cleaned == trim(collapseSpaces(replaceDashes(stripPrefix(branch)))) IN
  IF Len(cleaned) < 3 THEN <<>> ELSE capitalize(cleaned)

\* buildFeatureChoices(ctx): the values of the choices
buildFeatureChoices(ranked, gc, an) ==
  LET e0 == [list |-> <<>>, seen |-> {}] IN
  IF Len(ranked) > 0
    THEN pushAll(e0, [i \in 1..Len(ranked) |-> ranked[i].text]).list
    ELSE LET e1 == IF currentPR(gc) # <<>>
                     THEN pushChoice(e0, currentPR(gc)[1].title) ELSE e0
             e2 == pushAll(e1, slice(gc.recentCommits, 3))
             e3 == IF gc.branch # <<>> /\ gc.branch # Main /\ gc.branch # Master
                       /\ branchToFeature(gc.branch) # <<>>
                     THEN pushChoice(e2, branchToFeature(gc.branch)) ELSE e2
             e4 == IF an.available THEN pushAll(e3, an.suggestedFeatures) ELSE e3
         IN  e4.list

\* lines 125-143: the note as the first choice, the custom choice as the last
listChoices(choices, note) ==
  (IF Truthy(note)
     THEN <<note[1]>> \o SelectSeq(choices, LAMBDA c :
                                     toLowerCase(c) # toLowerCase(note[1]))
     ELSE choices)
  \o <<Custom>>

\* promptForFeature(ctx) up to its first question
promptForFeature(pr, ranked, gc, an) ==
  LET choices == buildFeatureChoices(ranked, gc, an) IN
  IF Len(choices) = 0
    THEN [pr EXCEPT !.pc = "input", !.choices = <<>>]
    ELSE [pr EXCEPT !.pc = "list", !.choices = listChoices(choices, pr.note)]

\* validate of the text questions
validate(input) == Len(trim(input)) > 0

\* the texts the inputs are drawn from
AddOAuthIntegration ==
  <<"A", "d", "d", " ", "O", "A", "u", "t", "h", " ", "i", "n", "t", "e",
    "g", "r", "a", "t", "i", "o", "n">>
AddOauthIntegrationFlow ==
  <<"A", "d", "d", " ", "o", "a", "u", "t", "h", " ", "i", "n", "t", "e",
    "g", "r", "a", "t", "i", "o", "n", " ", "f", "l", "o", "w">>
FixLoginBug ==
  <<"F", "i", "x", " ", "l", "o", "g", "i", "n", " ", "b", "u", "g">>
RefreshTheToken ==
  <<"R", "e", "f", "r", "e", "s", "h", " ", "t", "h", "e", " ", "t", "o",
    "k", "e", "n">>
TokenRefreshLogic ==
  <<"t", "o", "k", "e", "n", " ", "r", "e", "f", "r", "e", "s", "h", " ",
    "l", "o", "g", "i", "c">>
FeatureTokenRefresh ==
  <<"f", "e", "a", "t", "u", "r", "e", "/", "t", "o", "k", "e", "n", "-",
    "r", "e", "f", "r", "e", "s", "h">>
TokenRefresh ==
  <<"T", "o", "k", "e", "n", " ", "r", "e", "f", "r", "e", "s", "h">>
FixUi ==
  <<"F", "i", "x", "/", "U", "I">>
UpdateTheDocs ==
  <<"U", "p", "d", "a", "t", "e", " ", "t", "h", "e", " ", "d", "o", "c", "s">>
Ui ==
  <<"U", "I">>

\* ------------------------------------------------ the registry file on disk
\* Several invocations of the tool read and rewrite STORE_FILE; every system
\* call of readStore and writeStore is one step.
Procs == 1..MaxProcs
Inos == 1..(1 + MaxOps)
NoIno == 0

EmptyStore == [p \in Paths |-> NoEntry]

\* process.pid of an invocation
PidOf(p) == IF p = 1 THEN MyPid ELSE "other"

\* The text of a file.  kind "map" is JSON.stringify of a registry object,
\* which JSON.parse gives back entry for entry (sessionId and note strings or
\* null, pid a number); "garbage" is text JSON.parse rejects; "truncated" is
\* the empty text of a file opened with O_TRUNC and not written yet; "null"
\* is the JSON text null; "free" is an inode not in use.
Text(kind, map) == [kind |-> kind, map |-> map]
stringify(registry) == Text("map", registry)
Garbage == Text("garbage", EmptyStore)
Truncated == Text("truncated", EmptyStore)
JsonNull == Text("null", EmptyStore)
FreeInode == Text("free", EmptyStore)

\* readStore on the disk (active-session-store 15-22): the value it returns;
\* isNull is JSON.parse returning null
readStoreFile(names, files) ==
  IF names.store = NoIno
    THEN [isNull |-> FALSE, map |-> EmptyStore]            \* !existsSync
  ELSE IF files[names.store].kind = "map"
    THEN [isNull |-> FALSE, map |-> files[names.store].map]
  ELSE IF files[names.store].kind = "null"
    THEN [isNull |-> TRUE, map |-> EmptyStore]
  ELSE [isNull |-> FALSE, map |-> EmptyStore]              \* parse throws, caught

\* what readStore finds at STORE_FILE
FileKind(names, files) ==
  IF names.store = NoIno THEN "missing" ELSE files[names.store].kind

RegOps == {"registerSession", "unregisterSession", "setNote", "getNote"}

\* the update an operation makes to the object readStore returned
Modify(op, registry, path, note, p) ==
  CASE op = "registerSession" -> registerSession(registry, path, p, PidOf(p))
    [] op = "unregisterSession" -> unregisterSession(registry, path)
    [] op = "setNote" -> setNote(registry, path, note)
    [] OTHER -> registry

\* the operation throws before it writes: a property access on null, or
\* setNote without an entry
Throws(op, r, path) ==
  r.isNull \/ (op = "setNote" /\ r.map[path] = NoEntry)

NoOp == [pc |-> "idle", op |-> "", path |-> NoPath, note |-> "",
         before |-> EmptyStore, toWrite |-> EmptyStore, fd |-> NoIno]
Absent == [NoOp EXCEPT !.pc = "absent"]

Finished(r, out, value) ==
  [op |-> r.op, path |-> r.path, note |-> r.note, out |-> out,
   before |-> r.before, value |-> value]

NoneDone == Finished(NoOp, "", Null)

NoRead == [proc |-> 0, kind |-> "none"]

\* no invocation uses the registry file
RegistryAtRest ==
  /\ fsNames = [store |-> NoIno, tmp |-> NoIno]
  /\ inodes = [i \in Inos |-> FreeInode]
  /\ rproc = [p \in Procs |-> Absent]
  /\ done = [p \in Procs |-> NoneDone]
  /\ nOps = 0
  /\ lastRead = NoRead

\* no git context gathered, no suggestions built, no question asked
NoPrompt == [pc |-> "none", reason |-> "", note |-> Null, choices |-> <<>>,
             asks |-> 0, feature |-> Null]

UiAtRest ==
  /\ gitContext = NoGitContext
  /\ analysis = NoAnalysis
  /\ suggestions = <<>>
  /\ nBuilds = 0
  /\ prompt = NoPrompt

InitWith(cfgs) == InitLifecycle(cfgs) /\ RegistryAtRest /\ UiAtRest

\* variant: start-up waits for the retry run: with sessions to retry the idle
\* monitor is not started and the process is not launched
StartSessionAwaitsRetry(projectPath) ==
  /\ ~busy
  /\ nStarts < MaxStarts
  /\ LET id == nStarts + 1 IN
     /\ nStarts' = id
     /\ currentSession' = [id |-> id, projectPath |-> projectPath,
                           projectName |-> basename(projectPath),
                           startTime |-> now]
     /\ store' = registerSession(store, projectPath, id, MyPid)
     /\ \E runOk \in BOOLEAN :
          IF config.airtableSync /\ ~runOk
            THEN /\ retry' = [retry EXCEPT ![id] = <<>>]
                 /\ lastCall' = Call("startSession", id, "", "retryRejected")
            ELSE /\ retry' = [retry EXCEPT ![id] = IF config.airtableSync
                                                     THEN retryFailedSyncs(db)
                                                     ELSE <<>>]
                 /\ lastCall' = NoCall
     /\ lastActivityTime' = now
     /\ IF retry'[id] # <<>>
          THEN UNCHANGED <<timers, pollTimer, child, claudeProcess>>
          ELSE /\ timers' = [timers EXCEPT ![id] = [live |-> TRUE,
                                                    projectPath |-> projectPath,
                                                    due |-> now + pollIntervalMs,
                                                    fired |-> 0]]
               /\ pollTimer' = id
               /\ child' = [child EXCEPT ![id] = "running"]
               /\ claudeProcess' = id
  /\ UNCHANGED <<uiVars, regVars, config, now, isEnding, endPc, endLocal, endResult,
                 mtime, touches, db, delivered, log>>

\* startSession(projectPath, claudeArgs), lines 32-73; runOk = FALSE is the
\* promise of retryFailedSyncs rejecting into its catch handler (lines 52-54)
StartSession(projectPath) ==
  /\ ~busy
  /\ nStarts < MaxStarts
  /\ LET id == nStarts + 1 IN
     /\ nStarts' = id
     /\ currentSession' = [id |-> id, projectPath |-> projectPath,
                           projectName |-> basename(projectPath),
                           startTime |-> now]
     /\ store' = registerSession(store, projectPath, id, MyPid)
     /\ \E runOk \in BOOLEAN :
          IF config.airtableSync /\ ~runOk
            THEN /\ retry' = [retry EXCEPT ![id] = <<>>]
                 /\ lastCall' = Call("startSession", id, "", "retryRejected")
            ELSE /\ retry' = [retry EXCEPT ![id] = IF config.airtableSync
                                                     THEN retryFailedSyncs(db)
                                                     ELSE <<>>]
                 /\ lastCall' = NoCall
     /\ lastActivityTime' = now
     /\ timers' = [timers EXCEPT ![id] = [live |-> TRUE,
                                          projectPath |-> projectPath,
                                          due |-> now + pollIntervalMs,
                                          fired |-> 0]]
     /\ pollTimer' = id
     /\ child' = [child EXCEPT ![id] = "running"]
     /\ claudeProcess' = id
  /\ UNCHANGED <<uiVars, regVars, config, now, isEnding, endPc, endLocal, endResult,
                 mtime, touches, db, delivered, log>>

\* variant: a failed attempt ends the run
RetryDoneAbortsOnFailure(k, ok) ==
  /\ ~busy
  /\ retry[k] # <<>>
  /\ LET id == Head(retry[k]) IN
     /\ db' = IF ok THEN markSynced(db, id, Some("rec")) ELSE db
     /\ delivered' = IF ok THEN [delivered EXCEPT ![id] = @ + 1] ELSE delivered
  /\ retry' = [retry EXCEPT ![k] = IF ok THEN Tail(@) ELSE <<>>]
  /\ lastCall' = NoCall
  /\ UNCHANGED <<uiVars, regVars, config, now, currentSession, isEnding, nStarts, endPc,
                 endLocal, endResult, claudeProcess, child, pollTimer,
                 timers, lastActivityTime, mtime, touches, store, log>>

\* one attempt of a retryFailedSyncs run completes (airtable.ts 63-72)
RetryDone(k, ok) ==
  /\ ~busy
  /\ retry[k] # <<>>
  /\ LET id == Head(retry[k]) IN
     /\ db' = IF ok THEN markSynced(db, id, Some("rec")) ELSE db
     /\ delivered' = IF ok THEN [delivered EXCEPT ![id] = @ + 1] ELSE delivered
  /\ retry' = [retry EXCEPT ![k] = Tail(@)]
  /\ lastCall' = NoCall
  /\ UNCHANGED <<uiVars, regVars, config, now, currentSession, isEnding, nStarts, endPc,
                 endLocal, endResult, claudeProcess, child, pollTimer,
                 timers, lastActivityTime, mtime, touches, store, log>>

\* the child's 'exit' event: launchClaude's listener (process-manager.ts
\* 20-24) with the onExit callback of startSession (lines 67-71), then the
\* once('exit') listener of a pending stopClaude (line 47)
ChildExit(c, saveOk) ==
  /\ ~busy
  /\ child[c] \in {"running", "terminating", "errored"}
  /\ claudeProcess' = NULL
  /\ LET E == endSession([Cur EXCEPT !.child[c] = "exited"], "exit", NULL, saveOk) IN
     ApplyEnd(IF endPc = "awaitStop" /\ endLocal.stopChild = c
                THEN [E EXCEPT !.pc = "stopResolved"] ELSE E)
  /\ lastCall' = NoCall
  /\ UNCHANGED <<uiVars, regVars, config, now, nStarts, lastActivityTime, mtime, touches, retry>>

\* the child's 'error' event (process-manager.ts 26-30)
ChildError(c, saveOk) ==
  /\ ~busy
  /\ child[c] \in {"running", "terminating"}
  /\ claudeProcess' = NULL
  /\ ApplyEnd(endSession([Cur EXCEPT !.child[c] = "errored"], "exit", NULL, saveOk))
  /\ lastCall' = NoCall
  /\ UNCHANGED <<uiVars, regVars, config, now, nStarts, lastActivityTime, mtime, touches, retry>>

\* the code after await stopClaude() (lines 95 onwards)
StopResolved(saveOk) ==
  /\ endPc = "stopResolved"
  /\ ApplyEnd(AfterStop(Cur, saveOk))
  /\ lastCall' = NoCall
  /\ UNCHANGED <<uiVars, regVars, config, now, nStarts, claudeProcess, lastActivityTime,
                 mtime, touches, retry>>

\* variant: stopSession ends the session with reason exit
StopSessionAsExit(saveOk) ==
  /\ ~busy
  /\ IF currentSession = NoSession
       THEN /\ lastCall' = Call("stopSession", 0, "", "noHandle")
            /\ ApplyEnd(Cur)
       ELSE /\ lastCall' = Call("stopSession", 0, "manual", Guard(Cur))
            /\ ApplyEnd(endSession(Cur, "exit", claudeProcess, saveOk))
  /\ UNCHANGED <<uiVars, regVars, config, now, nStarts, claudeProcess, lastActivityTime,
                 mtime, touches, retry>>

\* stopSession(), lines 210-216: without a handle it warns and returns
StopSession(saveOk) ==
  /\ ~busy
  /\ IF currentSession = NoSession
       THEN /\ lastCall' = Call("stopSession", 0, "", "noHandle")
            /\ ApplyEnd(Cur)
       ELSE /\ lastCall' = Call("stopSession", 0, "manual", Guard(Cur))
            /\ ApplyEnd(endSession(Cur, "manual", claudeProcess, saveOk))
  /\ UNCHANGED <<uiVars, regVars, config, now, nStarts, claudeProcess, lastActivityTime,
                 mtime, touches, retry>>

\* a direct call of the exported endSession (the project-switch trigger)
EndSessionCall(reason, saveOk) ==
  /\ ~busy
  /\ lastCall' = Call("endSession", 0, reason, Guard(Cur))
  /\ ApplyEnd(endSession(Cur, reason, claudeProcess, saveOk))
  /\ UNCHANGED <<uiVars, regVars, config, now, nStarts, claudeProcess, lastActivityTime,
                 mtime, touches, retry>>

\* one firing of the setInterval callback of timer t (idle-detector 19-34);
\* onIdle is handleIdleTimeout of the session manager (lines 75-78)
Tick(t, saveOk) ==
  /\ ~busy
  /\ timers[t].live
  /\ timers[t].due <= now
  /\ LET tm == [timers EXCEPT ![t].due = @ + pollIntervalMs] IN
     IF ~isClaudeRunning(child, claudeProcess)
       THEN /\ ApplyEnd([Cur EXCEPT !.timers = stopIdleDetection(tm, pollTimer),
                                    !.pollTimer = NULL])
            /\ UNCHANGED lastActivityTime
            /\ lastCall' = Call("tick", t, "", "notRunning")
       ELSE LET last == IF hasProjectActivity(timers[t].projectPath)
                          THEN now ELSE lastActivityTime
                idleMs == now - last IN
            /\ lastActivityTime' = last
            /\ IF idleMs >= timeoutMs
                 THEN /\ ApplyEnd(endSession(
                             [Cur EXCEPT !.timers = [tm EXCEPT ![t].fired = @ + 1]],
                             "idle", claudeProcess, saveOk))
                      /\ lastCall' = Call("tick", t, "idle", Guard(Cur))
                 ELSE /\ ApplyEnd([Cur EXCEPT !.timers = tm])
                      /\ lastCall' = Call("tick", t, "", "notIdle")
  /\ UNCHANGED <<uiVars, regVars, config, now, nStarts, claudeProcess, mtime, touches, retry>>

\* variant: a throw of analyzeConversation is not caught and endSession rejects
AnalysisDoneThrowRejects(outcome, saveOk) ==
  /\ endPc = "awaitAnalysis"
  /\ ApplyEnd(IF outcome = "throws"
                THEN [Cur EXCEPT !.pc = "none", !.loc = NoLocal, !.res = "rejected"]
                ELSE ResolveFeature(
                       [Cur EXCEPT !.loc.summary = IF outcome = "ok"
                                                     THEN Some("summary")
                                                     ELSE Null], saveOk))
  /\ lastCall' = Call("analysis", 0, "", outcome)
  /\ UNCHANGED <<uiVars, regVars, config, now, nStarts, claudeProcess, lastActivityTime,
                 mtime, touches, retry>>

\* analyzeConversation settles (lines 119-129): a result, undefined, or a throw
AnalysisDone(outcome, saveOk) ==
  /\ endPc = "awaitAnalysis"
  /\ ApplyEnd(ResolveFeature(
        [Cur EXCEPT !.loc.summary = IF outcome = "ok" THEN Some("summary")
                                                      ELSE Null], saveOk))
  /\ lastCall' = Call("analysis", 0, "", outcome)
  /\ UNCHANGED <<uiVars, regVars, config, now, nStarts, claudeProcess, lastActivityTime,
                 mtime, touches, retry>>

\* what the prompt can return: the note offered as the default, or other text
\* (a listed suggestion or typed text; prompter: promptForFeature)
Answers(note) ==
  {"typed text"} \cup (IF Truthy(note) THEN {note[1]} ELSE {})

\* promptForFeature resolves (line 156)
PromptDone(answer, saveOk) ==
  /\ endPc = "awaitPrompt"
  /\ answer \in Answers(endLocal.note)
  /\ ApplyEnd(SaveStep(Cur, answer, saveOk))
  /\ lastCall' = NoCall
  /\ UNCHANGED <<uiVars, regVars, config, now, nStarts, claudeProcess, lastActivityTime,
                 mtime, touches, retry>>

\* promptForFeature rejects: endSession rejects at line 156
PromptThrows ==
  /\ endPc = "awaitPrompt"
  /\ ApplyEnd([Cur EXCEPT !.pc = "none", !.loc = NoLocal, !.res = "rejected"])
  /\ lastCall' = NoCall
  /\ UNCHANGED <<uiVars, regVars, config, now, nStarts, claudeProcess, lastActivityTime,
                 mtime, touches, retry>>

\* variant: a failed sync ends endSession without the notification attempt
SyncDoneAbortsOnFailure(ok) ==
  /\ endPc = "awaitSync"
  /\ LET id == endLocal.sid IN
     ApplyEnd(
       IF ok THEN AfterSync([Cur EXCEPT !.db = markSynced(db, id, Some("rec")),
                                        !.delivered[id] = @ + 1,
                                        !.log = Append(@, Ev("syncOk", id))])
             ELSE Finish([Cur EXCEPT !.log = Append(@, Ev("syncFail", id))]))
  /\ lastCall' = NoCall
  /\ UNCHANGED <<uiVars, regVars, config, now, nStarts, claudeProcess, lastActivityTime,
                 mtime, touches, retry>>

\* syncSessionToAirtable settles (lines 186-193; airtable.ts 21-47)
SyncDone(ok) ==
  /\ endPc = "awaitSync"
  /\ LET id == endLocal.sid IN
     ApplyEnd(AfterSync(
       IF ok THEN [Cur EXCEPT !.db = markSynced(db, id, Some("rec")),
                              !.delivered[id] = @ + 1,
                              !.log = Append(@, Ev("syncOk", id))]
             ELSE [Cur EXCEPT !.log = Append(@, Ev("syncFail", id))]))
  /\ lastCall' = NoCall
  /\ UNCHANGED <<uiVars, regVars, config, now, nStarts, claudeProcess, lastActivityTime,
                 mtime, touches, retry>>

\* sendSessionReport settles (lines 196-203; email/resend.ts 9-34)
EmailDone(ok) ==
  /\ endPc = "awaitEmail"
  /\ LET id == endLocal.sid IN
     ApplyEnd(Finish(
       IF ok THEN [Cur EXCEPT !.db = markEmailSent(db, id),
                              !.log = Append(@, Ev("emailOk", id))]
             ELSE [Cur EXCEPT !.log = Append(@, Ev("emailFail", id))]))
  /\ lastCall' = NoCall
  /\ UNCHANGED <<uiVars, regVars, config, now, nStarts, claudeProcess, lastActivityTime,
                 mtime, touches, retry>>

\* another invocation of the tool attaches a note
OtherSetNote(projectPath, note) ==
  /\ store' = setNote(store, projectPath, note)
  /\ lastCall' = IF store' = store THEN lastCall ELSE NoCall
  /\ UNCHANGED <<uiVars, regVars, config, now, currentSession, isEnding, nStarts, endPc,
                 endLocal, endResult, claudeProcess, child, pollTimer,
                 timers, lastActivityTime, mtime, touches, db,
                 retry, delivered, log>>

\* something writes an entry of a project directory
Touch(projectPath, e) ==
  /\ touches < MaxTouches
  /\ touches' = touches + 1
  /\ mtime' = [mtime EXCEPT ![projectPath][e] = now]
  /\ lastCall' = NoCall
  /\ UNCHANGED <<uiVars, regVars, config, now, currentSession, isEnding, nStarts, endPc,
                 endLocal, endResult, claudeProcess, child, pollTimer,
                 timers, lastActivityTime, store, db, retry,
                 delivered, log>>

\* the clock reaches the next poll instant; a due timer fires first
AdvanceTime ==
  /\ ~busy
  /\ now + pollIntervalMs <= MaxClock
  /\ \A t \in Ids : timers[t].live => timers[t].due > now
  /\ now' = now + pollIntervalMs
  /\ lastCall' = NoCall
  /\ UNCHANGED <<uiVars, regVars, config, currentSession, isEnding, nStarts, endPc, endLocal,
                 endResult, claudeProcess, child, pollTimer, timers,
                 lastActivityTime, mtime, touches, store, db, retry,
                 delivered, log>>

\* the two project paths are interchangeable: the first session is in ProjectA
StartPaths == IF nStarts = 0 THEN {ProjectA} ELSE Paths

\* the events of one process with its collaborators; the project directories
\* are not written to
Next ==
  \/ \E p \in StartPaths : StartSession(p)
  \/ \E k \in Ids, ok \in BOOLEAN : RetryDone(k, ok)
  \/ \E c \in Ids, saveOk \in BOOLEAN : ChildExit(c, saveOk)
  \/ \E c \in Ids, saveOk \in BOOLEAN : ChildError(c, saveOk)
  \/ \E saveOk \in BOOLEAN : StopResolved(saveOk)
  \/ \E saveOk \in BOOLEAN : StopSession(saveOk)
  \/ \E saveOk \in BOOLEAN : EndSessionCall("project-switch", saveOk)
  \/ \E t \in Ids, saveOk \in BOOLEAN : Tick(t, saveOk)
  \/ \E o \in {"ok", "absent", "throws"}, saveOk \in BOOLEAN : AnalysisDone(o, saveOk)
  \/ \E a \in Answers(endLocal.note), saveOk \in BOOLEAN : PromptDone(a, saveOk)
  \/ PromptThrows
  \/ \E ok \in BOOLEAN : SyncDone(ok)
  \/ \E ok \in BOOLEAN : EmailDone(ok)
  \/ \E p \in Paths, n \in NoteTexts : OtherSetNote(p, n)
  \/ AdvanceTime

Init == InitWith(Configs)

Spec == Init /\ [][Next]_vars

\* the idle detector with directory activity, integrations switched off
NextIdle ==
  \/ \E p \in StartPaths : StartSession(p)
  \/ \E c \in Ids, saveOk \in BOOLEAN : ChildExit(c, saveOk)
  \/ \E saveOk \in BOOLEAN : StopResolved(saveOk)
  \/ \E saveOk \in BOOLEAN : StopSession(saveOk)
  \/ \E t \in Ids, saveOk \in BOOLEAN : Tick(t, saveOk)
  \/ \E a \in Answers(endLocal.note), saveOk \in BOOLEAN : PromptDone(a, saveOk)
  \/ \E p \in Paths, e \in Entries : Touch(p, e)
  \/ AdvanceTime

InitIdle == InitWith(IdleConfigs)

SpecIdle == InitIdle /\ [][NextIdle]_vars

\* ------------------------------------------------------------- the ranker
\* buildSuggestions(gitContext, conversationAnalysis), called at line 132
BuildSuggestions ==
  /\ nBuilds < MaxBuilds
  /\ suggestions' = buildSuggestions(gitContext, analysis)
  /\ nBuilds' = nBuilds + 1
  /\ UNCHANGED <<lifecycleVars, regVars, gitContext, analysis, prompt>>

PullRequest(title, branch) == [title |-> title, branch |-> branch]

Branches == {Main, Master, FeatureTokenRefresh, FixUi}
CommitMessages == {AddOauthIntegrationFlow, FixLoginBug, RefreshTheToken, <<>>}
CommitLists == UNION {[1..n -> CommitMessages] : n \in 0..MaxCommits}
PullRequestLists(branch) ==
  {<<>>, <<PullRequest(AddOAuthIntegration, branch)>>,
   <<PullRequest(FixLoginBug, Master), PullRequest(AddOAuthIntegration, branch)>>,
   <<PullRequest(Ui, branch)>>}
Analyses ==
  {NoAnalysis} \cup
  {[available |-> TRUE, suggestedFeatures |-> f] :
     f \in {<<>>, <<TokenRefreshLogic>>, <<TokenRefreshLogic, FixLoginBug>>,
            <<FixLoginBug, AddOAuthIntegration>>,
            <<UpdateTheDocs, TokenRefreshLogic>>}}
GitContexts ==
  {[branch |-> b, recentCommits |-> c, openPRs |-> prs] :
     <<b, c, prs>> \in {x \in Branches \X CommitLists \X
                              UNION {PullRequestLists(b0) : b0 \in Branches} :
                          x[3] \in PullRequestLists(x[1])}}

InitRanker ==
  /\ InitLifecycle({AllOff})
  /\ RegistryAtRest
  /\ gitContext \in GitContexts
  /\ analysis \in Analyses
  /\ suggestions = <<>>
  /\ nBuilds = 0
  /\ prompt = NoPrompt

NextRanker == BuildSuggestions

SpecRanker == InitRanker /\ [][NextRanker]_vars

\* -------------------------------------------------- the feature question
\* endSession lines 131-157 with the note read from the registry: the note is
\* the feature, or promptForFeature asks
AskFeature(reason, note) ==
  /\ prompt.pc = "none"
  /\ suggestions' = buildSuggestions(gitContext, analysis)
  /\ nBuilds' = nBuilds + 1
  /\ LET pr == [prompt EXCEPT !.reason = reason, !.note = note] IN
     prompt' = IF reason = "idle" /\ Truthy(note)
                 THEN [pr EXCEPT !.pc = "saved", !.feature = Some(note[1])]
                 ELSE promptForFeature(pr, suggestions', gitContext, analysis)
  /\ UNCHANGED <<lifecycleVars, regVars, gitContext, analysis>>

\* the list question is answered with choice i (lines 145-162); a feature
\* returned goes into the Session that is saved (lines 156-183)
SelectChoice(i) ==
  /\ prompt.pc = "list"
  /\ i \in 1..Len(prompt.choices)
  /\ prompt' = IF prompt.choices[i] = Custom
                 THEN [prompt EXCEPT !.pc = "custom"]
                 ELSE [prompt EXCEPT !.pc = "saved",
                                     !.feature = Some(prompt.choices[i])]
  /\ UNCHANGED <<lifecycleVars, regVars, gitContext, analysis, suggestions, nBuilds>>

\* a text question is answered (lines 110-121 and 153-161); an empty input
\* stands for the default of the question where it has one
TypeText(typed) ==
  /\ prompt.pc \in {"input", "custom"}
  /\ LET input == IF typed = <<>> /\ prompt.pc = "input" /\ Truthy(prompt.note)
                    THEN prompt.note[1] ELSE typed IN
     IF validate(input)
       THEN prompt' = [prompt EXCEPT !.pc = "saved", !.feature = Some(trim(input))]
       ELSE /\ prompt.asks < MaxAsks
            /\ prompt' = [prompt EXCEPT !.asks = @ + 1]
  /\ UNCHANGED <<lifecycleVars, regVars, gitContext, analysis, suggestions, nBuilds>>

PromptNotes == {Null, Some(<<>>), Some(FixLoginBug), Some(<<"u", "i">>)}
TypedTexts == {<<>>, <<" ", " ">>, <<" ", "U", "I", " ">>}
PromptBranches == {Main, FeatureTokenRefresh, FixUi}
PromptCommitLists == {<<>>, <<<<>>>>, <<FixLoginBug>>, <<Ui, <<>>>>}
PromptAnalyses ==
  {NoAnalysis, [available |-> TRUE, suggestedFeatures |-> <<UpdateTheDocs>>]}

InitPrompt ==
  /\ InitLifecycle({AllOff, AnalysisOnly})
  /\ RegistryAtRest
  /\ gitContext \in {gc \in GitContexts : /\ gc.branch \in PromptBranches
                                         /\ gc.recentCommits \in PromptCommitLists}
  /\ analysis \in PromptAnalyses
  /\ analysis.available => analysisEnabled
  /\ suggestions = <<>>
  /\ nBuilds = 0
  /\ prompt = NoPrompt

NextPrompt ==
  \/ \E reason \in EndReasons, note \in PromptNotes : AskFeature(reason, note)
  \/ \E i \in 1..Len(prompt.choices) : SelectChoice(i)
  \/ \E typed \in TypedTexts : TypeText(typed)

SpecPrompt == InitPrompt /\ [][NextPrompt]_vars

\* ------------------------------------------------------- the sync command
\* the sync command of invocation k (cli.ts 74-86): a retryFailedSyncs run
SyncCommand(k) ==
  /\ retry[k] = <<>>
  /\ retry' = [retry EXCEPT ![k] = retryFailedSyncs(db)]
  /\ lastCall' = NoCall
  /\ UNCHANGED <<uiVars, regVars, config, now, currentSession, isEnding, nStarts, endPc,
                 endLocal, endResult, claudeProcess, child, pollTimer,
                 timers, lastActivityTime, mtime, touches, store, db,
                 delivered, log>>

\* table.create stored the record but the call did not return it: the
\* response was lost and create rejects (airtable.ts 29-43, 66-71), so
\* markSynced is not reached
RetryLost(k) ==
  /\ retry[k] # <<>>
  /\ delivered' = [delivered EXCEPT ![Head(retry[k])] = @ + 1]
  /\ retry' = [retry EXCEPT ![k] = Tail(@)]
  /\ lastCall' = NoCall
  /\ UNCHANGED <<uiVars, regVars, config, now, currentSession, isEnding, nStarts, endPc,
                 endLocal, endResult, claudeProcess, child, pollTimer,
                 timers, lastActivityTime, mtime, touches, store, db, log>>

\* invocation k is killed in the middle of its run
Crash(k) ==
  /\ retry[k] # <<>>
  /\ retry' = [retry EXCEPT ![k] = <<>>]
  /\ lastCall' = Call("crash", k, "", "")
  /\ UNCHANGED <<uiVars, regVars, config, now, currentSession, isEnding, nStarts, endPc,
                 endLocal, endResult, claudeProcess, child, pollTimer,
                 timers, lastActivityTime, mtime, touches, store, db,
                 delivered, log>>

\* a row saved by an earlier invocation and not synced yet
SavedRow(i, startTime) ==
  [NoRow EXCEPT !.id = i, !.projectPath = ProjectA,
                !.projectName = basename(ProjectA), !.feature = "typed text",
                !.startTime = startTime, !.endTime = startTime + 1,
                !.durationMs = 1, !.endReason = "exit"]

StartTimes == {10, 20}

\* the sessions table holds one to MaxRows unsynced rows
InitRetry ==
  /\ InitMemory({SyncAndEmail, SyncNoCredentials})
  /\ \E n \in RowIds, st \in [RowIds -> StartTimes] :
       db = [i \in RowIds |-> IF i <= n THEN SavedRow(i, st[i]) ELSE NoRow]
  /\ RegistryAtRest
  /\ UiAtRest

NextRetry ==
  \/ \E k \in Ids : SyncCommand(k)
  \/ \E k \in Ids, ok \in BOOLEAN :
       /\ retry[k] # <<>>
       /\ ok => delivered[Head(retry[k])] < MaxDeliveries
       /\ RetryDone(k, ok)
  \/ \E k \in Ids : /\ retry[k] # <<>>
                    /\ delivered[Head(retry[k])] < MaxDeliveries
                    /\ RetryLost(k)
  \/ \E k \in Ids : Crash(k)

SpecRetry == InitRetry /\ [][NextRetry]_vars

\* ------------------------------------------- registry operations, by step
\* an inode no name and no open descriptor refers to
Unused(i) ==
  /\ inodes[i].kind = "free"
  /\ i # fsNames.store /\ i # fsNames.tmp
  /\ \A q \in Procs : rproc[q].fd # i

\* invocation p calls op: readStore and the update in memory
\* (registerSession 31-34, unregisterSession 37-40, setNote 43-50,
\* getNote 53-56), up to the first system call of writeStore
RegBegin(p, op, path, note) ==
  /\ rproc[p].pc = "idle"
  /\ nOps < MaxOps
  /\ nOps' = nOps + 1
  /\ op # "setNote" => note = ""
  /\ LET r == readStoreFile(fsNames, inodes)
         call == [NoOp EXCEPT !.op = op, !.path = path, !.note = note,
                              !.before = r.map] IN
     /\ lastRead' = [proc |-> p, kind |-> FileKind(fsNames, inodes)]
     /\ IF Throws(op, r, path)
          THEN /\ done' = [done EXCEPT ![p] = Finished(call, "threw", Null)]
               /\ UNCHANGED rproc
        ELSE IF op = "getNote"
          THEN /\ done' = [done EXCEPT ![p] =
                             Finished(call, "ok", getNote(r.map, path))]
               /\ UNCHANGED rproc
        ELSE /\ rproc' = [rproc EXCEPT ![p] =
                            [call EXCEPT !.pc = "open",
                                         !.toWrite = Modify(op, r.map, path, note, p)]]
             /\ UNCHANGED done
  /\ UNCHANGED <<uiVars, lifecycleVars, fsNames, inodes>>

\* writeStore: writeFileSync opens STORE_FILE.tmp with O_CREAT | O_TRUNC
RegOpen(p) ==
  /\ rproc[p].pc = "open"
  /\ LET ino == IF fsNames.tmp # NoIno THEN fsNames.tmp
                ELSE CHOOSE i \in Inos : Unused(i) /\ \A j \in Inos : Unused(j) => i <= j
     IN /\ fsNames' = [fsNames EXCEPT !.tmp = ino]
        /\ inodes' = [inodes EXCEPT ![ino] = Truncated]
        /\ rproc' = [rproc EXCEPT ![p].pc = "write", ![p].fd = ino]
  /\ UNCHANGED <<uiVars, lifecycleVars, done, nOps, lastRead>>

\* variant: the text written is the update applied to the file as it is now
RegWriteFresh(p) ==
  /\ rproc[p].pc = "write"
  /\ LET ino == rproc[p].fd
         named == ino = fsNames.store \/ ino = fsNames.tmp
         fresh == Modify(rproc[p].op, readStoreFile(fsNames, inodes).map,
                         rproc[p].path, rproc[p].note, p) IN
     inodes' = [inodes EXCEPT ![ino] = IF named THEN stringify(fresh)
                                                ELSE FreeInode]
  /\ rproc' = [rproc EXCEPT ![p].pc = "rename", ![p].fd = NoIno]
  /\ UNCHANGED <<uiVars, lifecycleVars, fsNames, done, nOps, lastRead>>

\* writeStore: writeFileSync writes the text through its descriptor and closes
RegWrite(p) ==
  /\ rproc[p].pc = "write"
  /\ LET ino == rproc[p].fd
         named == ino = fsNames.store \/ ino = fsNames.tmp IN
     inodes' = [inodes EXCEPT ![ino] = IF named THEN stringify(rproc[p].toWrite)
                                                ELSE FreeInode]
  /\ rproc' = [rproc EXCEPT ![p].pc = "rename", ![p].fd = NoIno]
  /\ UNCHANGED <<uiVars, lifecycleVars, fsNames, done, nOps, lastRead>>

\* writeStore: renameSync(tmp, STORE_FILE); ENOENT when tmp is gone
RegRename(p) ==
  /\ rproc[p].pc = "rename"
  /\ IF fsNames.tmp = NoIno
       THEN /\ done' = [done EXCEPT ![p] = Finished(rproc[p], "threw", Null)]
            /\ UNCHANGED <<fsNames, inodes>>
       ELSE LET old == fsNames.store IN
            /\ fsNames' = [store |-> fsNames.tmp, tmp |-> NoIno]
            /\ inodes' = IF old # NoIno /\ \A q \in Procs : rproc[q].fd # old
                           THEN [inodes EXCEPT ![old] = FreeInode]
                           ELSE inodes
            /\ done' = [done EXCEPT ![p] = Finished(rproc[p], "ok", Null)]
  /\ rproc' = [rproc EXCEPT ![p] = NoOp]
  /\ UNCHANGED <<uiVars, lifecycleVars, nOps, lastRead>>

\* the registry file when the invocations start: missing, unparseable, the
\* text null, an empty registry, or a registry with one entry
InitialFiles ==
  {Garbage, JsonNull, stringify(EmptyStore),
   stringify([EmptyStore EXCEPT ![ProjectA] =
                [sessionId |-> 1, pid |-> MyPid, note |-> Null]])}

InitRegistry ==
  /\ InitLifecycle({AllOff})
  /\ \/ /\ fsNames = [store |-> NoIno, tmp |-> NoIno]
        /\ inodes = [i \in Inos |-> FreeInode]
     \/ /\ fsNames = [store |-> 1, tmp |-> NoIno]
        /\ \E text \in InitialFiles :
             inodes = [i \in Inos |-> IF i = 1 THEN text ELSE FreeInode]
  /\ rproc \in {[p \in Procs |-> IF p <= n THEN NoOp ELSE Absent] : n \in Procs}
  /\ done = [p \in Procs |-> NoneDone]
  /\ nOps = 0
  /\ lastRead = NoRead
  /\ UiAtRest

NextRegistry ==
  \/ \E p \in Procs, op \in RegOps, path \in Paths, note \in NoteTexts :
       RegBegin(p, op, path, note)
  \/ \E p \in Procs : RegOpen(p)
  \/ \E p \in Procs : RegWrite(p)
  \/ \E p \in Procs : RegRename(p)

SpecRegistry == InitRegistry /\ [][NextRegistry]_vars

\* ------------------------------------------------------------ observations
Count(s, e, i) == Cardinality({k \in DOMAIN s : s[k] = Ev(e, i)})

CountAll(s, evs) == Cardinality({k \in DOMAIN s : s[k].ev \in evs})

\* this step delivered the 'exit' or the 'error' event of a child
ExitEvent ==
  \E c \in Ids : child'[c] # child[c] /\ child'[c] \in {"exited", "errored"}

\* this step called stopSession, called endSession directly, or ran onIdle
StopCalled == lastCall'.op = "stopSession"
DirectCall == lastCall'.op = "endSession"
IdleCallback == lastCall'.op = "tick" /\ lastCall'.reason = "idle"

\* this step is a firing of timer t
TickOf(t) == lastCall'.op = "tick" /\ lastCall'.n = t

\* an end trigger that does nothing: no save, no prompt, no change of the
\* handle, the flag, the registry, the running endSession call or its
\* promise, no timer cancelled, no child signalled.  (An 'exit' event still
\* resolves a pending stopClaude, and a tick still re-arms its own timer.)
NoEffect ==
  /\ UNCHANGED <<currentSession, isEnding, endLocal, endResult, store, db,
                 log, delivered, pollTimer>>
  /\ \/ endPc' = endPc
     \/ ExitEvent /\ endPc = "awaitStop" /\ endPc' = "stopResolved"
  /\ \A t \in Ids : /\ timers'[t].live = timers[t].live
                    /\ timers'[t].projectPath = timers[t].projectPath
  /\ \A c \in Ids : child'[c] = "terminating" => child[c] = "terminating"

\* ---------------------------------------------------------------- claims

\* C1: whatever the interleaving of end triggers (exit callback, idle
\* callback, stopSession), saveSession is called at most once for a session,
\* and a trigger that arrives while an earlier endSession has set isEnding
\* returns without any effect.
C1_AtMostOneSave ==
  /\ [](\A i \in Ids : Count(log, "save", i) + Count(log, "saveThrows", i) <= 1)
  /\ [][(currentSession # NoSession /\ isEnding
           /\ (ExitEvent \/ StopCalled \/ DirectCall \/ IdleCallback))
        => NoEffect]_vars

\* a stopSession arrived after the save, while endSession awaited the sync
C1_Witness ==
  /\ lastCall.op = "stopSession"
  /\ lastCall.outcome = "ending"
  /\ isEnding
  /\ \E i \in Ids : Count(log, "save", i) = 1

\* C2: endSession called while currentSession is null returns normally and
\* changes nothing: nothing saved, no prompt, registry, idle monitor and
\* watched process untouched.
C2_NoHandleIsNoOp ==
  [][(currentSession = NoSession /\ (DirectCall \/ ExitEvent \/ IdleCallback))
     => /\ NoEffect
        /\ endPc' = endPc
        /\ endResult' # "rejected"
        /\ DirectCall => UNCHANGED <<child, claudeProcess, timers>>]_vars

\* endSession was called after a session had been ended and saved
C2_Witness ==
  /\ lastCall.op = "endSession"
  /\ lastCall.outcome = "noHandle"
  /\ currentSession = NoSession
  /\ \E i \in Ids : db[i] # NoRow

\* C3: startSession called while a handle exists fails and leaves the
\* handle, its registry entry, its idle monitor and its watched process as
\* they were.
C3_StartWhileActiveChangesNothing ==
  [][(currentSession # NoSession /\ nStarts' # nStarts)
     => UNCHANGED <<currentSession, store, pollTimer, timers, claudeProcess,
                    child>>]_vars

C5_IdleCallbackOnce == \A t \in Ids : timers[t].fired <= 1

\* C6: at a tick where the watched process is running and a non-hidden entry
\* of the project directory was modified less than 60 seconds before the
\* tick, lastActivityTime becomes the tick time and the idle callback is not
\* invoked at that tick.
C6_ActivityResetsIdleClock ==
  [][\A t \in Ids :
       (/\ TickOf(t)
        /\ isClaudeRunning(child, claudeProcess)
        /\ \E e \in Entries :
              /\ e[1] # "."
              /\ now - mtime[timers[t].projectPath][e] < recentThreshold)
       => /\ lastActivityTime' = now
          /\ timers'[t].fired = timers[t].fired
          /\ ~IdleCallback
          /\ UNCHANGED <<isEnding, endPc, log>>]_vars

\* a tick at or past the idle threshold found the directory recently modified
C6_Witness ==
  /\ lastCall.op = "tick"
  /\ lastCall.outcome = "notIdle"
  /\ now >= timeoutMs
  /\ lastActivityTime = now
  /\ timers[lastCall.n].live
  /\ now - mtime[timers[lastCall.n].projectPath][EntrySrc] < recentThreshold

\* C7: a tick that finds the watched process not running cancels the timer
\* that fired it, and does not invoke the idle callback.
C7_NotRunningTickCancelsItself ==
  [][\A t \in Ids :
       (TickOf(t) /\ ~isClaudeRunning(child, claudeProcess))
       => ~timers'[t].live /\ ~IdleCallback]_vars

\* the saveSession call of this step, if it made one
SaveCalledNow ==
  CountAll(log', {"save", "saveThrows"}) > CountAll(log, {"save", "saveThrows"})

PromptedNow == CountAll(log', {"prompt"}) > CountAll(log, {"prompt"})

\* the reason of the endSession call whose code this step runs
ReasonOfStep ==
  IF endPc # "none" THEN endLocal.reason
  ELSE IF lastCall'.op # "none" THEN lastCall'.reason
  ELSE "exit"

\* the note this endSession call reads, or has read, at line 135
NoteRead ==
  IF endPc = "awaitPrompt" THEN endLocal.note
  ELSE getNote(store, currentSession.projectPath)

\* promptForFeature calls of this endSession call up to the end of this step
PromptsOfCall ==
  endLocal.prompts + CountAll(log', {"prompt"}) - CountAll(log, {"prompt"})

SavedRowNow ==
  LET k == CHOOSE j \in (Len(log) + 1)..Len(log') :
                log'[j].ev \in {"save", "saveThrows"}
  IN  db'[log'[k].id]

\* the policy of lines 139-157, HasNote deciding what counts as a note
FeaturePolicy(HasNote(_)) ==
  /\ PromptedNow => ~(ReasonOfStep = "idle" /\ HasNote(NoteRead))
  /\ SaveCalledNow =>
       IF ReasonOfStep = "idle" /\ HasNote(NoteRead)
         THEN /\ PromptsOfCall = 0
              /\ SavedRowNow # NoRow => SavedRowNow.feature = NoteRead[1]
         ELSE PromptsOfCall = 1

IsNotNull(v) == v # Null

\* C8 as stated: with reason idle and any note in the registry the prompt is
\* never invoked and the saved feature is the note; in every other case the
\* prompt is invoked exactly once before the save.
C8_AnyNoteSkipsPrompt == [][FeaturePolicy(IsNotNull)]_vars

\* C8: with reason idle and a non-empty note in the registry the prompt is
\* never invoked and the saved feature is the note exactly; in every other
\* case (another reason, no note, or an empty note) the prompt is invoked
\* exactly once before the save.
C8_NonEmptyNoteSkipsPrompt == [][FeaturePolicy(Truthy)]_vars

\* an idle end saved the note as the feature without a prompt
C8_Witness ==
  \E i \in Ids : /\ db[i] # NoRow
                 /\ db[i].endReason = "idle"
                 /\ db[i].feature = "fix login"
                 /\ Count(log, "prompt", i) = 0

\* the saved row i but for the flags the sync and the notification mark
Record(table, i) ==
  [table[i] EXCEPT !.airtableSynced = FALSE, !.airtableRecordId = Null,
                   !.emailSent = FALSE]

\* endSession has completed: handle and flag cleared, registry entry removed
ReturnedToIdle ==
  /\ endPc' = "none"
  /\ endResult' = "resolved"
  /\ currentSession' = NoSession
  /\ ~isEnding'
  /\ currentSession.projectPath \in Paths
       => store'[currentSession.projectPath] = NoEntry

\* C9: the save comes before any sync or notification attempt; a failed sync
\* is followed by the notification attempt, a failed notification leaves a
\* successful sync in place, neither changes the saved record, and
\* endSession completes and returns to Idle.
C9_BestEffortAfterSave ==
  /\ [](\A k \in DOMAIN log :
          log[k].ev \in {"sync", "email"}
            => \E j \in 1..(k - 1) : log[j] = Ev("save", log[k].id))
  /\ [][(endPc = "awaitSync" /\ endPc' # endPc)
        => /\ db[endLocal.sid] # NoRow
           /\ Record(db', endLocal.sid) = Record(db, endLocal.sid)
           /\ IF config.emailReports /\ config.perSessionEmails /\ config.email
                THEN /\ endPc' = "awaitEmail"
                     /\ Count(log', "email", endLocal.sid)
                          = Count(log, "email", endLocal.sid) + 1
                ELSE ReturnedToIdle]_vars
  /\ [][(endPc = "awaitEmail" /\ endPc' # endPc)
        => /\ db[endLocal.sid] # NoRow
           /\ Record(db', endLocal.sid) = Record(db, endLocal.sid)
           /\ db'[endLocal.sid].airtableSynced = db[endLocal.sid].airtableSynced
           /\ delivered' = delivered
           /\ ReturnedToIdle]_vars

\* the sync failed, the notification was then sent, and endSession completed
C9_Witness ==
  \E i \in Ids : /\ Count(log, "syncFail", i) = 1
                 /\ Count(log, "emailOk", i) = 1
                 /\ db[i] # NoRow
                 /\ db[i].emailSent
                 /\ ~db[i].airtableSynced
                 /\ endResult = "resolved"
                 /\ currentSession = NoSession

\* C10: when saveSession throws, endSession rejects, and neither the sync
\* nor the notification is attempted for that session.
C10_SaveFailureIsLoud ==
  \A i \in Ids :
    Count(log, "saveThrows", i) > 0
      => /\ endResult = "rejected"
         /\ endPc = "none"
         /\ db[i] = NoRow
         /\ \A k \in DOMAIN log :
              log[k].id = i
                => log[k].ev \notin {"save", "sync", "syncOk", "syncFail",
                                     "email", "emailOk", "emailFail"}

\* saveSession threw with the sync and the notification both configured
C10_Witness ==
  /\ \E i \in Ids : Count(log, "saveThrows", i) = 1
  /\ endResult = "rejected"
  /\ config.airtableSync /\ config.airtable
  /\ config.emailReports /\ config.perSessionEmails /\ config.email

\* this step completes an endSession call that had passed its entry guard
EndCompletes == endResult = "pending" /\ endResult' = "resolved"

\* C11: when an endSession call that passed its guard completes, the handle
\* is cleared, isEnding is false, no idle timer is left running, and the
\* registry has no entry left for a project of this process.
C11_CompletionLeavesIdle ==
  [][EndCompletes
     => /\ currentSession' = NoSession
        /\ ~isEnding'
        /\ pollTimer' = NULL
        /\ \A t \in Ids : ~timers'[t].live
        /\ \A p \in Paths : store'[p] = NoEntry]_vars

\* C12: the 'error' event of a child that was launched runs no endSession
\* pipeline and saves nothing.
C12_LaunchFailureChangesNothing ==
  [][(\E c \in Ids : child[c] = "running" /\ child'[c] = "errored")
     => UNCHANGED <<currentSession, isEnding, endPc, endLocal, endResult,
                    store, db, log, pollTimer, timers>>]_vars

\* C13: no readStore of any invocation finds a file whose text is only partly
\* written: what it reads is the missing file, the text the invocations
\* started with, or the whole text of one writeStore.
C13_NoTornRead == lastRead.kind # "truncated"

\* the registry a readStore would return now
Registry == readStoreFile(fsNames, inodes).map

\* C14: read-modify-write is not isolated.  The text an invocation writes is
\* the registry it read when its call began with its own update applied, so
\* for every other path it writes back the entry it read, whatever another
\* invocation has stored since; an update completed in between is lost.
C14_WritesBackStaleRead ==
  [][\A p \in Procs :
       (/\ rproc[p].pc = "write" /\ rproc'[p].pc = "rename"
        /\ inodes'[rproc[p].fd].kind # "free")
       => /\ inodes'[rproc[p].fd].kind = "map"
          /\ \A path \in Paths \ {rproc[p].path} :
               inodes'[rproc[p].fd].map[path] = rproc[p].before[path]]_vars

\* two invocations each registered its own project and both calls returned,
\* yet the registry holds only one of the two entries
C14_Witness ==
  /\ nOps = 2
  /\ done[1].op = "registerSession" /\ done[1].path = ProjectA /\ done[1].out = "ok"
  /\ done[2].op = "registerSession" /\ done[2].path = ProjectB /\ done[2].out = "ok"
  /\ FileKind(fsNames, inodes) = "map"
  /\ Registry[ProjectA] = NoEntry
  /\ Registry[ProjectB] # NoEntry

\* this step is the readStore and the update in memory of a call by p
BeginsCall(p) == nOps' = nOps + 1 /\ lastRead'.proc = p

\* the call p began in this step: in progress, or already returned
CallBegun(p) == IF rproc'[p].pc = "open" THEN rproc'[p] ELSE done'[p]

Returned(p) == rproc'[p].pc = "idle"

\* C15: a call that finds the registry file missing, or holding anything but
\* a well-formed registry, works on the empty registry and does not throw
\* (setNote then fails as it does on an empty registry).
C15_BadFileReadsAsEmpty ==
  [][\A p \in Procs :
       (BeginsCall(p) /\ lastRead'.kind # "map")
       => /\ CallBegun(p).before = EmptyStore
          /\ (Returned(p) /\ done'[p].out = "threw") => done'[p].op = "setNote"]_vars

\* only one invocation uses the registry
Alone == \A q \in Procs : q # 1 => rproc[q].pc = "absent"

\* C16: setNote for a path without an entry throws, writes nothing and
\* creates no entry; with an entry it replaces the note and leaves the
\* entry's session id and pid and every other entry as read, and a getNote
\* that follows returns the text of that latest setNote.
C16_SetNote ==
  [][\A p \in Procs :
       /\ (BeginsCall(p) /\ CallBegun(p).op = "setNote")
          => LET c == CallBegun(p)
                 old == c.before[c.path] IN
             IF old = NoEntry \/ lastRead'.kind = "null"
               THEN /\ Returned(p) /\ done'[p].out = "threw"
                    /\ UNCHANGED <<fsNames, inodes>>
               ELSE /\ rproc'[p].pc = "open"
                    /\ c.toWrite[c.path] = [old EXCEPT !.note = Some(c.note)]
                    /\ \A q \in Paths \ {c.path} : c.toWrite[q] = c.before[q]
       /\ (/\ Alone /\ BeginsCall(p) /\ CallBegun(p).op = "getNote"
           /\ done[p].op = "setNote" /\ done[p].out = "ok"
           /\ done[p].path = CallBegun(p).path)
          => /\ Returned(p) /\ done'[p].out = "ok"
             /\ done'[p].value = Some(done[p].note)]_vars

\* a second setNote replaced the note of the first, and the file holds it
C16_Witness ==
  /\ Alone
  /\ rproc[1].pc = "idle"
  /\ done[1].op = "setNote" /\ done[1].out = "ok"
  /\ done[1].before[done[1].path].note \notin {Null, Some(done[1].note)}
  /\ Registry[done[1].path].note = Some(done[1].note)

\* this step is the rename that completes a call of p
CompletesCall(p) == rproc[p].pc = "rename" /\ rproc'[p].pc = "idle"

RegistryAfter == readStoreFile(fsNames', inodes').map

\* C17: with no other writer, registerSession(P) followed by
\* unregisterSession(P) leaves no entry for P and every other entry as it was
\* before the register (the empty registry stays empty), and
\* unregisterSession of a path without an entry leaves the registry as read.
C17_RegisterThenUnregister ==
  [][\A p \in Procs :
       (Alone /\ CompletesCall(p) /\ rproc[p].op = "unregisterSession")
       => /\ done'[p].out = "ok"
          /\ RegistryAfter[rproc[p].path] = NoEntry
          /\ rproc[p].before[rproc[p].path] = NoEntry
               => RegistryAfter = rproc[p].before
          /\ (/\ done[p].op = "registerSession" /\ done[p].out = "ok"
              /\ done[p].path = rproc[p].path)
               => RegistryAfter = [done[p].before EXCEPT ![rproc[p].path] = NoEntry]]_vars

\* ProjectB was registered and unregistered next to the entry of ProjectA
C17_Witness ==
  /\ Alone
  /\ nOps = 2
  /\ rproc[1].pc = "idle"
  /\ done[1].op = "unregisterSession" /\ done[1].out = "ok"
  /\ done[1].path = ProjectB
  /\ done[1].before[ProjectB] # NoEntry
  /\ Registry[ProjectB] = NoEntry
  /\ Registry[ProjectA] # NoEntry


\* ------------------------------------------------------------ retry queue
\* run k makes one attempt: its queue advances and the invocation lives on
Attempt(k) ==
  /\ retry[k] # <<>>
  /\ retry'[k] # retry[k]
  /\ lastCall'.op # "crash"

\* C18: an attempt of a retryFailedSyncs run, failed or not, leaves the rest
\* of the run's queue in place, so the run goes on to the next session; a
\* successful attempt marks its session synced, a failed one leaves its
\* session's row as it was, and no attempt touches another session's row.
C18_FailureDoesNotStopRun ==
  [][\A k \in Ids : Attempt(k) =>
       LET id == Head(retry[k]) IN
         /\ retry'[k] = Tail(retry[k])
         /\ \A i \in RowIds \ {id} : db'[i] = db[i]
         /\ \/ db'[id] = db[id]
            \/ /\ db'[id].airtableSynced
               /\ db' = markSynced(db, id, db'[id].airtableRecordId)]_vars

\* of three unsynced sessions the second failed: the runs are over, the first
\* and third are delivered once and synced, the second is unsynced
C18_Witness ==
  /\ \A k \in Ids : retry[k] = <<>>
  /\ \A i \in 1..3 : db[i] # NoRow
  /\ db[1].airtableSynced /\ ~db[2].airtableSynced /\ db[3].airtableSynced
  /\ delivered[1] = 1 /\ delivered[2] = 0 /\ delivered[3] = 1
  /\ lastCall.op # "crash"

\* C19 as stated: whatever runs were interrupted and re-run, every session is
\* either delivered and marked synced or not delivered and unsynced, and no
\* session is delivered to the record store more than once.
C19_DeliveredOnceIffSynced ==
  \A i \in RowIds :
    /\ delivered[i] <= 1
    /\ (delivered[i] > 0) <=> (db[i] # NoRow /\ db[i].airtableSynced)

\* ------------------------------------------------------- saved session rows
\* C20: a saved row is never written again: in every step, whatever operation
\* takes it, the row keeps every field other than the two delivery flags and
\* the external record id, and a delivery flag once set stays set.
C20_SavedRowIsFrozen ==
  [][\A i \in RowIds : db[i] # NoRow =>
       /\ Record(db', i) = Record(db, i)
       /\ db[i].airtableSynced => db'[i].airtableSynced
       /\ db[i].emailSent => db'[i].emailSent]_vars

\* the first session's row is synced and its report sent while a second
\* session has been started, finalized and saved
C20_Witness ==
  /\ db[1] # NoRow /\ db[2] # NoRow
  /\ db[1].airtableSynced /\ db[1].airtableRecordId # Null /\ db[1].emailSent
  /\ db[1].feature # "" /\ db[1].durationMs > 0
  /\ ~db[2].airtableSynced

\* C21: every row of the sessions table ends no earlier than it starts, and
\* its duration is its end minus its start.
C21_DurationIsEndMinusStart ==
  \A i \in RowIds : db[i] # NoRow =>
    /\ db[i].endTime >= db[i].startTime
    /\ db[i].durationMs = db[i].endTime - db[i].startTime

\* ------------------------------------------------------------- the ranker
\* the suggestions of source src in the list
FromSource(list, src) == SelectSeq(list, LAMBDA x : x.source = src)

\* the inputs of the example: an open pull request on the current branch
\* titled "Add OAuth integration", a commit "Add oauth integration flow"
OAuthExample ==
  /\ gitContext.branch = FeatureTokenRefresh
  /\ gitContext.openPRs = <<PullRequest(AddOAuthIntegration, FeatureTokenRefresh)>>
  /\ gitContext.recentCommits = <<AddOauthIntegrationFlow>>

\* C23: once buildSuggestions has returned, a pull-request title that was
\* accepted is in the list with confidence 1.0 and no commit message similar
\* to it is; in the example the list holds, of the two, the title only.
C23_CommitSimilarToPullRequestRejected ==
  nBuilds > 0 =>
    /\ \A i \in 1..Len(suggestions) : suggestions[i].source = "pr" =>
         /\ suggestions[i].confidence = 10
         /\ \A j \in 1..Len(suggestions) : suggestions[j].source = "commit" =>
              ~isSimilar(normalize(suggestions[i].text),
                         normalize(suggestions[j].text))
    /\ OAuthExample =>
         /\ FromSource(suggestions, "pr") =
              <<[text |-> AddOAuthIntegration, source |-> "pr", confidence |-> 10]>>
         /\ FromSource(suggestions, "commit") = <<>>

C23_Witness ==
  /\ nBuilds > 0
  /\ OAuthExample
  /\ analysis = NoAnalysis
  /\ Len(suggestions) = 2
  /\ suggestions[1].text = AddOAuthIntegration

\* nothing but the branch name to go by
BranchOnly ==
  /\ currentPR(gitContext) = <<>>
  /\ gitContext.recentCommits = <<>>
  /\ ~analysis.available

\* C24: once buildSuggestions has returned, with no pull request, no commits
\* and no analysis the branch feature/token-refresh gives the one suggestion
\* "Token refresh" of source branch and confidence 0.6, and on main or master
\* no suggestion of the list comes from the branch.
C24_BranchSuggestion ==
  nBuilds > 0 =>
    /\ BranchOnly /\ gitContext.branch = FeatureTokenRefresh =>
         suggestions = <<[text |-> TokenRefresh, source |-> "branch",
                          confidence |-> 6]>>
    /\ gitContext.branch \in {Main, Master} =>
         FromSource(suggestions, "branch") = <<>>

C24_Witness ==
  /\ nBuilds > 0
  /\ BranchOnly
  /\ gitContext.branch = FeatureTokenRefresh
  /\ Len(suggestions) = 1
  /\ suggestions[1].source = "branch"

\* C25 as stated: once buildSuggestions has returned, with no pull request
\* and no commits, a first conversation-analysis suggestion similar to the
\* text derived from the branch is in the list with confidence 0.7 and the
\* branch-derived text is not in the list.
C25_ConversationBeforeBranch ==
  LET feat == analysis.suggestedFeatures
      fromBranch == branchToFeatureName(gitContext.branch)
  IN  /\ nBuilds > 0
      /\ currentPR(gitContext) = <<>>
      /\ gitContext.recentCommits = <<>>
      /\ gitContext.branch \notin {<<>>, Main, Master}
      /\ analysis.available /\ feat # <<>>
      /\ Len(normalize(feat[1])) >= 3 /\ Len(normalize(fromBranch)) >= 3
      /\ isSimilar(normalize(feat[1]), normalize(fromBranch))
      => /\ \E i \in 1..Len(suggestions) :
              suggestions[i] = [text |-> feat[1], source |-> "conversation",
                                confidence |-> 7]
         /\ FromSource(suggestions, "branch") = <<>>

\* the suggestions of confidence c in the list
OfConfidence(list, c) == SelectSeq(list, LAMBDA x : x.confidence = c)

C22_FeatureNeverEmpty ==
  prompt.pc = "saved" => prompt.feature # Null /\ prompt.feature[1] # <<>>

\* ------------------------------------------------- the finalize-in-progress flag
\* C27 as stated: isEnding is true only while an endSession call is executing:
\* when no call is in progress, one that failed included, the flag is false.
C27_FlagOnlyWhileEnding ==
  isEnding => endPc # "none"

\* ------------------------------------------------- the handle of a call
\* the handle that was current when the endSession call this step belongs to
\* passed its entry guard
HandleOfCall == IF endPc # "none" THEN endLocal.handle ELSE currentSession

SavedNow == CountAll(log', {"save"}) > CountAll(log, {"save"})

\* C28 as stated: the row an endSession call saves carries the id, project
\* path, project name and start time of the handle that was current when the
\* call passed its guard, and the call, completing, finds that handle
\* current and removes the registry entry of its project and no other.
C28_CallKeepsItsHandle ==
  [][/\ SavedNow =>
          /\ SavedRowNow.id = HandleOfCall.id
          /\ SavedRowNow.projectPath = HandleOfCall.projectPath
          /\ SavedRowNow.projectName = HandleOfCall.projectName
          /\ SavedRowNow.startTime = HandleOfCall.startTime
     /\ EndCompletes =>
          /\ currentSession = HandleOfCall
          /\ store' = unregisterSession(store, HandleOfCall.projectPath)]_vars

\* C29 as stated: over all sync attempts of all runs, overlapping ones
\* included, no session is delivered to the record store more than once.
C29_DeliveredAtMostOnce ==
  \A i \in RowIds : delivered[i] <= 1

\* ------------------------------------------------ stopping the watched process
\* a child this process launched is running
Running(ch, c) == ch[c] \in {"running", "terminating"}

\* this step is an end trigger other than an 'exit' event that passes the
\* entry guard of endSession while the process of claudeProcess is running
PassesWhileRunning ==
  /\ StopCalled \/ DirectCall \/ IdleCallback
  /\ currentSession # NoSession /\ ~isEnding
  /\ isClaudeRunning(child, claudeProcess)

\* this step delivers the 'exit' event of the child a stopClaude waits for
ExitOfStopped ==
  /\ endPc = "awaitStop"
  /\ child[endLocal.stopChild] # "exited"
  /\ child'[endLocal.stopChild] = "exited"

\* C30 as stated: an endSession that finds the watched process running asks
\* it to terminate and goes no further until it has exited; promptForFeature
\* is never invoked while a watched process is running; and the 'exit' event
\* of the terminated process starts no second finalize.
C30_PromptAfterExit ==
  [][/\ PassesWhileRunning =>
          /\ child'[claudeProcess] = "terminating"
          /\ endPc' = "awaitStop"
          /\ log' = log
     /\ endPc = "awaitStop" /\ endPc' # "awaitStop" => ExitOfStopped
     /\ PromptedNow => \A c \in Ids : ~Running(child', c)
     /\ ExitOfStopped =>
          /\ endPc' = "stopResolved"
          /\ UNCHANGED <<currentSession, isEnding, endLocal, endResult, store,
                         db, log>>]_vars

\* ------------------------------------------------------- the idle monitor
\* this step calls stopIdleDetection: a tick that finds the watched process
\* not running (idle-detector 20-22), or an endSession call that passes its
\* entry guard (session-manager 87)
StopsDetection ==
  \/ lastCall'.op = "tick" /\ lastCall'.outcome = "notRunning"
  \/ /\ currentSession # NoSession /\ ~isEnding
     /\ ExitEvent \/ StopCalled \/ DirectCall \/ IdleCallback

\* C40: stopIdleDetection called while pollTimer is null, the monitor stopped
\* or never started, cancels nothing and changes nothing: pollTimer stays
\* null, every timer stays as live as it was, lastActivityTime is unchanged.
C40_StopWhenStoppedIsNoOp ==
  [][(pollTimer = NULL /\ StopsDetection)
     => /\ pollTimer' = NULL
        /\ lastActivityTime' = lastActivityTime
        /\ \A t \in Ids : /\ timers'[t].live = timers[t].live
                          /\ timers'[t].projectPath = timers[t].projectPath]_vars

\* a tick found the watched process gone and called stopIdleDetection after
\* the monitor had been stopped
C40_Witness ==
  /\ lastCall.op = "tick"
  /\ lastCall.outcome = "notRunning"
  /\ pollTimer = NULL
  /\ timers[lastCall.n].live
  /\ \E i \in Ids : db[i] # NoRow

\* C39 as stated: at most one idle poll timer is live, and once
\* stopIdleDetection has returned (pollTimer is null) none is, so that no tick
\* runs until the next startIdleDetection.
C39_AtMostOneLiveTimer ==
  /\ Cardinality({t \in Ids : timers[t].live}) <= 1
  /\ pollTimer = NULL => \A t \in Ids : ~timers[t].live

\* ------------------------------------------------------- the synced flag
\* C38: a row whose synced flag is set holds an external record id and its
\* session has been delivered; the flag is set in the step that completes a
\* successful delivery of that session and in no other; and a flag that is
\* set stays set, with its record id in place.
C38_SyncedFlag ==
  /\ [](\A i \in RowIds : (db[i] # NoRow /\ db[i].airtableSynced)
          => db[i].airtableRecordId # Null /\ delivered[i] > 0)
  /\ [][\A i \in RowIds :
          /\ (db'[i].airtableSynced /\ ~db[i].airtableSynced)
               => /\ db[i] # NoRow
                  /\ delivered'[i] = delivered[i] + 1
          /\ db[i].airtableSynced
               => db'[i].airtableSynced /\ db'[i].airtableRecordId # Null]_vars

\* the sync of endSession failed for the first session and the retry run of
\* the next startSession delivered it and set its flag
C38_Witness ==
  /\ Count(log, "syncFail", 1) = 1
  /\ db[1] # NoRow
  /\ db[1].airtableSynced /\ db[1].airtableRecordId # Null
  /\ delivered[1] = 1
  /\ nStarts = 2

\* ------------------------------------------------- the order of a retry run
\* the sessions run k has still to attempt are in ascending order of start
\* time, none of them twice
InOrder(queue) ==
  \A m, n \in DOMAIN queue :
    m < n => /\ queue[m] # queue[n]
             /\ db[queue[m]].startTime <= db[queue[n]].startTime

\* C36: a retryFailedSyncs run takes the unsynced sessions, each once, in
\* ascending order of start time, and attempts them one at a time from the
\* front: an attempt that settles, delivered or failed, removes the first
\* session of the run and leaves the others in their order, so a session is
\* attempted after the one before it has settled and never twice in a run.
C36_OneAtATimeInStartOrder ==
  /\ [](\A k \in Ids : InOrder(retry[k]))
  /\ [][\A k \in Ids :
          /\ (retry[k] = <<>> /\ retry'[k] # <<>>)
               => Range(retry'[k]) =
                    {i \in RowIds : db[i] # NoRow /\ ~db[i].airtableSynced}
          /\ Attempt(k) => retry'[k] = Tail(retry[k])]_vars

\* the session saved second started first and was attempted first: the run
\* has delivered it and has the session saved first still to attempt
C36_Witness ==
  /\ db[1] # NoRow /\ db[2] # NoRow /\ db[3] = NoRow
  /\ db[2].startTime < db[1].startTime
  /\ retry[1] = <<1>> /\ retry[2] = <<>>
  /\ db[2].airtableSynced /\ delivered[2] = 1
  /\ ~db[1].airtableSynced /\ delivered[1] = 0

\* ---------------------------------------------------------- deduplication
\* two normalized texts are similar: equal, one a substring of the other, or
\* the words they share more than 0.6 of the words of both
Similar(a, b) ==
  \/ a = b
  \/ \E i \in 0..(Len(a) - Len(b)) : SubSeq(a, i + 1, i + Len(b)) = b
  \/ \E i \in 0..(Len(b) - Len(a)) : SubSeq(b, i + 1, i + Len(a)) = a
  \/ 10 * Cardinality(splitWords(a) \cap splitWords(b))
       > 6 * Cardinality(splitWords(a) \cup splitWords(b))

\* no two suggestions of the list are similar
PairwiseDissimilar(list) ==
  \A i, j \in 1..Len(list) :
    i # j => ~Similar(normalize(list[i].text), normalize(list[j].text))

\* candidate n is similar to a candidate handed in before it and accepted
SimilarToAccepted(cands, n, list) ==
  \E m \in 1..(n - 1) :
    /\ cands[m] \in Range(list)
    /\ Similar(normalize(cands[m].text), normalize(cands[n].text))

\* C37 as stated: no two suggestions of the list buildSuggestions returned
\* are similar, and a candidate is missing from the list only if it is
\* similar to a candidate accepted before it.
C37_RejectedOnlyIfSimilar ==
  nBuilds > 0 =>
    LET cands == candidates(gitContext, analysis) IN
    /\ PairwiseDissimilar(suggestions)
    /\ \A n \in 1..Len(cands) :
         cands[n] \notin Range(suggestions)
           => SimilarToAccepted(cands, n, suggestions)

\* C37: no two suggestions of the list buildSuggestions returned are similar,
\* every suggestion of the list is a candidate, and a candidate is missing
\* from the list only if its normalized text is shorter than three
\* characters or it is similar to a candidate accepted before it.
C37_RejectedOnlyIfShortOrSimilar ==
  nBuilds > 0 =>
    LET cands == candidates(gitContext, analysis) IN
    /\ PairwiseDissimilar(suggestions)
    /\ Range(suggestions) \subseteq Range(cands)
    /\ \A n \in 1..Len(cands) :
         cands[n] \notin Range(suggestions)
           => \/ Len(normalize(cands[n].text)) < 3
              \/ SimilarToAccepted(cands, n, suggestions)

\* the pull-request title "UI" was rejected for its length, the branch text
\* "Token refresh" for the words it shares with the commit "Refresh the
\* token", which is the one suggestion
C37_Witness ==
  /\ nBuilds > 0
  /\ gitContext.branch = FeatureTokenRefresh
  /\ gitContext.openPRs = <<PullRequest(Ui, FeatureTokenRefresh)>>
  /\ gitContext.recentCommits = <<RefreshTheToken>>
  /\ analysis = NoAnalysis
  /\ Len(candidates(gitContext, analysis)) = 3
  /\ suggestions = <<[text |-> RefreshTheToken, source |-> "commit",
                      confidence |-> 8]>>

\* ------------------------------------------------ the conversation analysis
\* this step is analyzeConversation throwing into the catch of lines 126-128
AnalysisThrows == lastCall'.op = "analysis" /\ lastCall'.outcome = "throws"

\* C34: when analyzeConversation throws, endSession goes on with no analysis:
\* the same step reads the note and either asks for the feature or builds and
\* saves the Session, endSession does not reject unless saveSession throws,
\* and the Session saved, in that step or after the prompt, has no
\* conversation summary.
C34_AnalysisFailureSwallowed ==
  [][/\ AnalysisThrows =>
          /\ endPc = "awaitAnalysis"
          /\ PromptedNow \/ SaveCalledNow
          /\ endPc' = "awaitPrompt" => endLocal'.summary = Null
          /\ endResult' = "rejected" => SaveCalledNow /\ ~SavedNow
          /\ SavedNow => SavedRowNow.conversationSummary = Null
     /\ (endPc = "awaitPrompt" /\ SavedNow)
          => SavedRowNow.conversationSummary = endLocal.summary]_vars

\* the analysis threw at the end of an idle session with a note, and the
\* Session was saved in the same step without a summary
C34_Witness ==
  /\ lastCall.op = "analysis" /\ lastCall.outcome = "throws"
  /\ analysisEnabled
  /\ \E i \in Ids : /\ Count(log, "save", i) = 1
                    /\ db[i] # NoRow
                    /\ db[i].conversationSummary = Null
                    /\ db[i].endReason = "idle"
  /\ endResult = "resolved"

\* ------------------------------------------------- the retry run of a start
\* this step is a startSession call
Starts == nStarts' = nStarts + 1

\* C35: a startSession call begins a retryFailedSyncs run and does not wait
\* for it: in the same step, with sessions still to retry or the run
\* rejected, the handle is set, the entry registered, the idle monitor
\* started and the watched process launched; and an attempt of a run, failed
\* or not, changes neither the handle nor the promise of an endSession call
\* nor the monitor nor the watched process.
C35_RetryDoesNotBlockStart ==
  [][/\ Starts =>
          LET id == nStarts' IN
          /\ retry'[id] = (IF lastCall'.outcome = "retryRejected"
                             THEN <<>> ELSE retryFailedSyncs(db))
          /\ currentSession'.id = id
          /\ store'[currentSession'.projectPath].sessionId = id
          /\ pollTimer' = id /\ timers'[id].live
          /\ claudeProcess' = id /\ child'[id] = "running"
          /\ endResult' = endResult
     /\ \A k \in Ids : Attempt(k) =>
          UNCHANGED <<currentSession, isEnding, endPc, endResult, store,
                      pollTimer, timers, claudeProcess, child>>]_vars

\* the second session runs, monitored and launched, while the retry run of
\* its start still has the first session to attempt
C35_Witness ==
  /\ nStarts = 2
  /\ retry[2] = <<1>>
  /\ currentSession.id = 2
  /\ pollTimer = 2 /\ timers[2].live
  /\ claudeProcess = 2 /\ child[2] = "running"
  /\ Count(log, "syncFail", 1) = 1

\* ------------------------------------------------ the entry of the session
\* C32 as stated: while a handle exists the registry holds an entry for its
\* project path with the id of the current session, and once the handle is
\* cleared the registry holds no entry written by this process.
C32_EntryWhileHandle ==
  /\ currentSession # NoSession
       => /\ store[currentSession.projectPath] # NoEntry
          /\ store[currentSession.projectPath].sessionId = currentSession.id
          /\ store[currentSession.projectPath].pid = MyPid
  /\ currentSession = NoSession
       => \A p \in Paths : store[p] # NoEntry => store[p].pid # MyPid

\* the registry file as it is before the rename of this step
RegistryBefore == readStoreFile(fsNames, inodes).map

\* C33 as stated: the unregisterSession of an invocation that had registered
\* a project path leaves in place an entry that another invocation has
\* registered for the same path in the meantime, its note included.
C33_RemovesOnlyOwnEntry ==
  [][\A p \in Procs :
       (/\ CompletesCall(p) /\ rproc[p].op = "unregisterSession"
        /\ done[p].op = "registerSession" /\ done[p].out = "ok"
        /\ done[p].path = rproc[p].path
        /\ FileKind(fsNames, inodes) = "map"
        /\ RegistryBefore[rproc[p].path] # NoEntry
        /\ RegistryBefore[rproc[p].path].pid # PidOf(p))
       => RegistryAfter[rproc[p].path] = RegistryBefore[rproc[p].path]]_vars

\* ------------------------------------------------- a session comes to its end
\* One process whose collaborators return: saveSession does not throw, the
\* prompt is answered, the analysis, the sync and the notification settle, a
\* child that was sent SIGTERM exits, and the promise of stopClaude resolves.
\* A launch does not fail.
NextLive ==
  \/ \E p \in StartPaths : StartSession(p)
  \/ \E k \in Ids, ok \in BOOLEAN : RetryDone(k, ok)
  \/ \E c \in Ids : ChildExit(c, TRUE)
  \/ StopResolved(TRUE)
  \/ StopSession(TRUE)
  \/ \E t \in Ids : Tick(t, TRUE)
  \/ \E o \in {"ok", "absent", "throws"} : AnalysisDone(o, TRUE)
  \/ \E a \in Answers(endLocal.note) : PromptDone(a, TRUE)
  \/ \E ok \in BOOLEAN : SyncDone(ok)
  \/ \E ok \in BOOLEAN : EmailDone(ok)
  \/ AdvanceTime

InitLive == InitWith({AllOff, SyncAndEmail, AnalysisOnly})

\* what the event loop and the collaborators guarantee: a settled promise runs
\* its continuation, a pending collaborator call settles, a signalled child
\* exits
Fairness ==
  /\ WF_vars(StopResolved(TRUE))
  /\ WF_vars(\E c \in Ids : child[c] = "terminating" /\ ChildExit(c, TRUE))
  /\ WF_vars(\E o \in {"ok", "absent", "throws"} : AnalysisDone(o, TRUE))
  /\ WF_vars(\E a \in Answers(endLocal.note) : PromptDone(a, TRUE))
  /\ WF_vars(\E ok \in BOOLEAN : SyncDone(ok))
  /\ WF_vars(\E ok \in BOOLEAN : EmailDone(ok))

SpecLive == InitLive /\ [][NextLive]_vars /\ Fairness

\* the session of start i is persisted once and the orchestrator is Idle
Persisted(i) ==
  /\ Count(log, "save", i) = 1
  /\ db[i] # NoRow
  /\ currentSession = NoSession /\ ~isEnding /\ endPc = "none"
  /\ pollTimer = NULL /\ ~timers[i].live

\* C31 as stated: once the watched process of a start has exited and no
\* Session of that start is saved yet, with the collaborators returning,
\* eventually exactly one Session of that start is persisted and the
\* orchestrator is Idle, the handle cleared and the idle timer cancelled.
C31_EachStartIsPersisted ==
  \A i \in Ids :
    (child[i] = "exited" /\ Count(log, "save", i) = 0) ~> Persisted(i)

====
